---- MODULE Spec2Model ----
(***************************************************************************)
(* Model of the sharded VFT ledger of awesome-sails: ShardedMap            *)
(* (utils/src/map.rs), Balances (services/vft/utils/src/balances.rs) and   *)
(* Allowances (crates/vft-pack/vft/utils/src/allowances.rs).               *)
(* A bare ShardedMap is driven on its own as well, and so are the Vft      *)
(* service (crates/awesome-sails/vft/src/lib.rs) over both ledgers and a   *)
(* CustomUint (utils/src/math.rs) under its codec and try_resize.  A       *)
(* Pausable wrapper (utils/src/pause.rs) is driven around the Balances     *)
(* ledger, the AccessControl service around its RolesStorage and LeBytes   *)
(* (src/math.rs) under checked_add.                                        *)
(*                                                                         *)
(* Every ledger operation is a pure operator from the object (a record of  *)
(* the struct's fields) to the record [self, res, ret]: the object after   *)
(* the call, the Result variant and the returned value.  The actions apply *)
(* these operators to the state variables.                                 *)
(***************************************************************************)
EXTENDS Integers, Sequences, FiniteSets, TLC

VARIABLES balances, allowances, sharded_map, custom_uint, pause, roles, le_bytes,
          component, last

vars == <<balances, allowances, sharded_map, custom_uint, pause, roles, le_bytes,
          component, last>>

(***************************************************************************)
(* Bounds of the model.  The integer types are scaled down: T (Balance,    *)
(* CustomUint<80, 2>) ranges over 0..TMax, U256 over 0..U256Max and usize  *)
(* over 0..2^UsizeBits-1.  A CustomUint has 1..MaxBits bits and a byte has *)
(* ByteBits bits.                                                          *)
(***************************************************************************)
NumAccounts == 4
TMax == 3
U256Max == 4
MaxShards == 2
UsizeBits == 4
NumAllowanceActors == 2
AllowanceMax == 3
u32_MAX == 2
NumMapKeys == 4
NumMapValues == 2
NumScenarioKeys == 8
ByteBits == 2
MaxBits == 6
NumRoles == 2
NumRoleActors == 2
MaxLeBytes == 3
MaxBatch == 2

ActorId == 0..NumAccounts
NonZeroActor == 1..NumAccounts
T == 0..TMax
NonZeroT == 1..TMax
usize_MAX == 2^UsizeBits - 1
CapacityInputs == {0, 1, 2}
AllowanceActor == 1..NumAllowanceActors
Allowance == 0..AllowanceMax
u32 == 0..u32_MAX
MapKey == 1..NumMapKeys
MapValue == 1..NumMapValues
MapCapacityInputs == {0, 1, 2, 3}
ScenarioKey == 1..NumScenarioKeys
Width == 1..MaxBits
ByteBase == 2^ByteBits

(***************************************************************************)
(* hashbrown::HashMap, as far as ShardedMap uses it: a finite function kv  *)
(* and the number capacity() answers.                                      *)
(***************************************************************************)
EmptyKv == <<>>

HashMap_new == [kv |-> EmptyKv, capacity |-> 0]

RECURSIVE next_power_of_two(_, _)
next_power_of_two(n, p) == IF p >= n THEN p ELSE next_power_of_two(n, 2 * p)

\* Faulty with_capacity: every bucket of the table holds an entry.
with_capacity_fills_buckets(cap) ==
    IF cap = 0 THEN HashMap_new
    ELSE [kv |-> EmptyKv,
          capacity |-> IF cap < 4 THEN 4
                       ELSE IF cap < 8 THEN 8
                       ELSE next_power_of_two((cap * 8) \div 7, 1)]

\* HashMap::with_capacity(cap).capacity(): the table gets 4 or 8 buckets
\* for cap < 8 and the next power of two of cap * 8 / 7 otherwise, and
\* holds buckets - 1 entries below 8 buckets and 7/8 of them above.
with_capacity(cap) ==
    IF cap = 0 THEN HashMap_new
    ELSE LET buckets == IF cap < 4 THEN 4
                        ELSE IF cap < 8 THEN 8
                        ELSE next_power_of_two((cap * 8) \div 7, 1)
         IN [kv |-> EmptyKv,
             capacity |-> IF buckets <= 8 THEN buckets - 1
                          ELSE (buckets \div 8) * 7]

map_len(map) == Cardinality(DOMAIN map.kv)

map_insert(map, key, value) ==
    [map EXCEPT !.kv = [k \in (DOMAIN map.kv) \cup {key} |->
                            IF k = key THEN value ELSE map.kv[k]]]

map_remove(map, key) ==
    [map EXCEPT !.kv = [k \in (DOMAIN map.kv) \ {key} |-> map.kv[k]]]

(***************************************************************************)
(* ShardedMap: shards is a sequence of [map, cap].                         *)
(***************************************************************************)
RECURSIVE trailing_zeros(_)
trailing_zeros(n) ==
    IF n = 0 THEN UsizeBits
    ELSE IF n % 2 = 1 THEN 0 ELSE 1 + trailing_zeros(n \div 2)

RECURSIVE trailing_ones(_)
trailing_ones(n) == IF n % 2 = 0 THEN 0 ELSE 1 + trailing_ones(n \div 2)

RECURSIVE BitAnd(_, _)
BitAnd(a, b) ==
    IF a = 0 \/ b = 0 THEN 0
    ELSE (IF a % 2 = 1 /\ b % 2 = 1 THEN 1 ELSE 0)
         + 2 * BitAnd(a \div 2, b \div 2)

\* Faulty is_valid_capacity: a shifted run of ones may be of any length.
is_valid_capacity_any_run(n) ==
    IF n = 0 \/ n = usize_MAX THEN FALSE
    ELSE LET shift_for == trailing_zeros(n)
             m == n \div (2 ^ shift_for)
         IN BitAnd(m, (m + 1) % (2 ^ UsizeBits)) = 0

is_valid_capacity(n) ==
    IF n = 0 \/ n = usize_MAX THEN FALSE
    ELSE LET shift_for == trailing_zeros(n)
             m == n \div (2 ^ shift_for)
         IN IF BitAnd(m, (m + 1) % (2 ^ UsizeBits)) # 0 THEN FALSE
            ELSE shift_for = 0 \/ trailing_ones(m) >= 3

RECURSIVE InsertDesc(_, _)
InsertDesc(c, s) ==
    IF s = <<>> THEN <<c>>
    ELSE IF c >= Head(s) THEN <<c>> \o s
    ELSE <<Head(s)>> \o InsertDesc(c, Tail(s))

\* capacities.sort() followed by .into_iter().rev()
RECURSIVE SortDesc(_)
SortDesc(s) == IF s = <<>> THEN <<>> ELSE InsertDesc(Head(s), SortDesc(Tail(s)))

\* Faulty try_new: the sorted capacities are not reversed.
try_new_ascending(capacities) ==
    IF \E i \in DOMAIN capacities : ~is_valid_capacity(capacities[i])
    THEN [res |-> "InvalidCapacity", shards |-> <<>>]
    ELSE LET sorted == SortDesc(capacities)
         IN [res |-> "Ok",
             shards |-> [i \in DOMAIN sorted |->
                            [map |-> HashMap_new,
                             cap |-> sorted[Len(sorted) + 1 - i]]]]

try_new(capacities) ==
    IF \E i \in DOMAIN capacities : ~is_valid_capacity(capacities[i])
    THEN [res |-> "InvalidCapacity", shards |-> <<>>]
    ELSE LET sorted == SortDesc(capacities)
         IN [res |-> "Ok",
             shards |-> [i \in DOMAIN sorted |->
                            [map |-> HashMap_new, cap |-> sorted[i]]]]

RECURSIVE SumSeq(_)
SumSeq(s) == IF s = <<>> THEN 0 ELSE Head(s) + SumSeq(Tail(s))

capacity(shards) == SumSeq([i \in DOMAIN shards |-> shards[i].map.capacity])

max_capacity(shards) == SumSeq([i \in DOMAIN shards |-> shards[i].cap])

len(shards) == SumSeq([i \in DOMAIN shards |-> map_len(shards[i].map)])

has_space(shards) ==
    \E i \in DOMAIN shards : map_len(shards[i].map) < shards[i].map.capacity

has_space_err(shards) == IF has_space(shards) THEN "Ok" ELSE "CapacityOverflow"

\* The first of the shard indices in S, in iteration order; 0 when S is
\* empty (Option::None of find_map).
FirstShard(S) ==
    IF S = {} THEN 0 ELSE CHOOSE i \in S : \A j \in S : i <= j

\* Faulty alloc_next_shard: realizes the highest unallocated shard first.
alloc_next_shard_highest_first(shards) ==
    LET Unallocated == {i \in DOMAIN shards : shards[i].map.capacity = 0}
        idx == IF Unallocated = {} THEN 0
               ELSE CHOOSE i \in Unallocated : \A j \in Unallocated : j <= i
    IN [shards |-> IF idx = 0 THEN shards
                   ELSE [shards EXCEPT ![idx].map = with_capacity(shards[idx].cap)],
        ret |-> idx # 0 /\ idx # Len(shards)]

\* Faulty alloc_next_shard: answers whether this call realized a shard.
alloc_next_shard_reports_allocation(shards) ==
    LET Unallocated == {i \in DOMAIN shards : shards[i].map.capacity = 0}
        idx == FirstShard(Unallocated)
    IN [shards |-> IF idx = 0 THEN shards
                   ELSE [shards EXCEPT ![idx].map = with_capacity(shards[idx].cap)],
        ret |-> idx # 0]

alloc_next_shard(shards) ==
    LET Unallocated == {i \in DOMAIN shards : shards[i].map.capacity = 0}
        idx == FirstShard(Unallocated)
    IN [shards |-> IF idx = 0 THEN shards
                   ELSE [shards EXCEPT ![idx].map = with_capacity(shards[idx].cap)],
        ret |-> idx # 0 /\ idx # Len(shards)]

clear_shards(shards) ==
    [i \in DOMAIN shards |-> [shards[i] EXCEPT !.map.kv = EmptyKv]]

\* Faulty try_append_shard: the new shard is realized at once.
try_append_shard_allocates(shards, cap) ==
    IF ~is_valid_capacity(cap)
    THEN [res |-> "InvalidCapacity", shards |-> shards]
    ELSE [res |-> "Ok",
          shards |-> Append(shards, [map |-> with_capacity(cap), cap |-> cap])]

try_append_shard(shards, cap) ==
    IF ~is_valid_capacity(cap)
    THEN [res |-> "InvalidCapacity", shards |-> shards]
    ELSE [res |-> "Ok",
          shards |-> Append(shards, [map |-> HashMap_new, cap |-> cap])]

None == [idx |-> 0]

IsSome(o) == o.idx # 0

get(shards, key) ==
    LET Holds == {i \in DOMAIN shards : key \in DOMAIN shards[i].map.kv}
        idx == FirstShard(Holds)
    IN IF idx = 0 THEN None ELSE [idx |-> idx, v |-> shards[idx].map.kv[key]]

get_at(shards, idx, key) ==
    IF key \in DOMAIN shards[idx].map.kv
    THEN [idx |-> idx, v |-> shards[idx].map.kv[key]]
    ELSE None

remove_at(shards, idx, key) ==
    [shards EXCEPT ![idx].map = map_remove(shards[idx].map, key)]

remove(shards, key) ==
    LET found == get(shards, key)
    IN IF IsSome(found) THEN remove_at(shards, found.idx, key) ELSE shards

\* *v = value through the reference get_mut / get_mut_at returned
set_at(shards, idx, key, value) ==
    [shards EXCEPT ![idx].map = map_insert(shards[idx].map, key, value)]

\* Faulty try_insert: asks for spare room before it looks for the key.
try_insert_checks_space_first(shards, key, value) ==
    LET found == get(shards, key)
        Spare == {i \in DOMAIN shards :
                      map_len(shards[i].map) < shards[i].map.capacity}
        available_map == FirstShard(Spare)
    IN IF available_map = 0
       THEN [res |-> "CapacityOverflow", shards |-> shards,
             idx |-> 0, previous |-> None]
       ELSE IF IsSome(found)
       THEN [res |-> "Ok", shards |-> set_at(shards, found.idx, key, value),
             idx |-> found.idx, previous |-> found]
       ELSE [res |-> "Ok", shards |-> set_at(shards, available_map, key, value),
             idx |-> available_map, previous |-> None]

try_insert(shards, key, value) ==
    LET found == get(shards, key)
        Spare == {i \in DOMAIN shards :
                      map_len(shards[i].map) < shards[i].map.capacity}
        available_map == FirstShard(Spare)
    IN IF IsSome(found)
       THEN [res |-> "Ok", shards |-> set_at(shards, found.idx, key, value),
             idx |-> found.idx, previous |-> found]
       ELSE IF available_map = 0
       THEN [res |-> "CapacityOverflow", shards |-> shards,
             idx |-> 0, previous |-> None]
       ELSE [res |-> "Ok", shards |-> set_at(shards, available_map, key, value),
             idx |-> available_map, previous |-> None]

\* try_insert_new and try_insert_new_at are unsafe: the caller guarantees
\* that no shard holds the key.  A call that breaks this is reported as
\* "KeyPresent" and writes nothing.
try_insert_new(shards, key, value) ==
    LET Spare == {i \in DOMAIN shards :
                      map_len(shards[i].map) < shards[i].map.capacity}
        idx == FirstShard(Spare)
    IN IF IsSome(get(shards, key))
       THEN [res |-> "KeyPresent", shards |-> shards, idx |-> 0]
       ELSE IF idx = 0
       THEN [res |-> "CapacityOverflow", shards |-> shards, idx |-> 0]
       ELSE [res |-> "Ok", shards |-> set_at(shards, idx, key, value), idx |-> idx]

try_insert_new_at(shards, idx, key, value) ==
    IF IsSome(get(shards, key))
    THEN [res |-> "KeyPresent", shards |-> shards]
    ELSE IF ~(map_len(shards[idx].map) < shards[idx].map.capacity)
    THEN [res |-> "CapacityOverflow", shards |-> shards]
    ELSE [res |-> "Ok", shards |-> set_at(shards, idx, key, value)]

(***************************************************************************)
(* math.rs: checked arithmetic of a type with values 0..MAX, and NonZero.  *)
(***************************************************************************)
checked_add_err(a, b, MAX) ==
    IF a + b > MAX THEN [res |-> "Overflow", v |-> 0] ELSE [res |-> "Ok", v |-> a + b]

checked_sub_err(a, b) ==
    IF a < b THEN [res |-> "Underflow", v |-> 0] ELSE [res |-> "Ok", v |-> a - b]

NonZero_try_new(value) ==
    IF value = 0 THEN [res |-> "Zero", v |-> 0] ELSE [res |-> "Ok", v |-> value]

try_add(a, b, MAX) ==
    LET sum == checked_add_err(a, b, MAX)
    IN IF sum.res # "Ok" THEN sum ELSE NonZero_try_new(sum.v)

\* Faulty try_sub: the difference is wrapped without the zero check.
try_sub_wraps_zero(a, b) == checked_sub_err(a, b)

try_sub(a, b) ==
    LET diff == checked_sub_err(a, b)
    IN IF diff.res # "Ok" THEN diff ELSE NonZero_try_new(diff.v)

(***************************************************************************)
(* Balances: self is [minimum_balance, store, total, unused].              *)
(***************************************************************************)
\* From<MathError> / From<UnderflowError> / ... for BalancesError
BalancesError(e) == IF e = "Underflow" THEN "Insufficient" ELSE e

Ok(self, ret) == [res |-> "Ok", self |-> self, ret |-> ret]

Err(self, e) == [res |-> e, self |-> self, ret |-> 0]

Balances_try_new(capacities, minimum_balance) ==
    LET store == try_new(capacities)
    IN IF store.res # "Ok" THEN Err(None, store.res)
       ELSE Ok([minimum_balance |-> minimum_balance, store |-> store.shards,
                total |-> 0, unused |-> 0], 0)

allocate_next_shard(self) ==
    LET r == alloc_next_shard(self.store)
    IN Ok([self EXCEPT !.store = r.shards], r.ret)

set_minimum_balance(self, minimum_balance) ==
    Ok([self EXCEPT !.minimum_balance = minimum_balance], 0)

Balances_try_append_shard(self, cap) ==
    LET r == try_append_shard(self.store, cap)
    IN IF r.res # "Ok" THEN Err(self, r.res)
       ELSE Ok([self EXCEPT !.store = r.shards], 0)

Balances_get(self, account) ==
    LET found == get(self.store, account)
    IN IF IsSome(found) THEN found.v ELSE 0

\* Faulty burn: a dust sweep takes the whole balance off the total supply.
burn_sweep_burns_balance(self, account, value) ==
    LET found == get(self.store, account)
    IN IF ~IsSome(found) THEN Err(self, BalancesError("Underflow"))
       ELSE
       LET sub == try_sub(found.v, value)
       IN IF sub.res = "Ok" /\ sub.v >= self.minimum_balance
          THEN Ok([self EXCEPT
                      !.store = set_at(self.store, found.idx, account, sub.v),
                      !.total = self.total - value], 0)
          ELSE IF sub.res = "Ok"
          THEN Ok([self EXCEPT
                      !.unused = self.unused + sub.v,
                      !.store = remove_at(self.store, found.idx, account),
                      !.total = self.total - found.v], 0)
          ELSE IF sub.res = "Zero"
          THEN Ok([self EXCEPT
                      !.store = remove_at(self.store, found.idx, account),
                      !.total = self.total - value], 0)
          ELSE Err(self, BalancesError(sub.res))

burn(self, account, value) ==
    LET found == get(self.store, account)
    IN IF ~IsSome(found) THEN Err(self, BalancesError("Underflow"))
       ELSE
       LET sub == try_sub(found.v, value)
           after ==
               IF sub.res = "Ok" /\ sub.v >= self.minimum_balance
               THEN Ok([self EXCEPT
                           !.store = set_at(self.store, found.idx, account, sub.v)], 0)
               ELSE IF sub.res = "Ok"
               THEN LET unused == checked_add_err(self.unused, sub.v, U256Max)
                    IN IF unused.res # "Ok" THEN Err(self, unused.res)
                       ELSE Ok([self EXCEPT
                                   !.unused = unused.v,
                                   !.store = remove_at(self.store, found.idx, account)], 0)
               ELSE IF sub.res = "Zero"
               THEN Ok([self EXCEPT
                           !.store = remove_at(self.store, found.idx, account)], 0)
               ELSE Err(self, BalancesError(sub.res))
       IN IF after.res # "Ok" THEN after
          ELSE LET total == checked_sub_err(after.self.total, value)
               IN IF total.res # "Ok" THEN Err(after.self, "Panic")
                  ELSE Ok([after.self EXCEPT !.total = total.v], 0)

\* Faulty burn_all: an entry below minimum_balance is left in place.
burn_all_respects_minimum(self, account) ==
    LET found == get(self.store, account)
    IN IF ~IsSome(found) \/ found.v < self.minimum_balance THEN Ok(self, 0)
       ELSE LET removed == [self EXCEPT !.store = remove(self.store, account)]
                total == checked_sub_err(self.total, found.v)
            IN IF total.res # "Ok" THEN Err(removed, "Panic")
               ELSE Ok([removed EXCEPT !.total = total.v], found.v)

burn_all(self, account) ==
    LET found == get(self.store, account)
    IN IF ~IsSome(found) THEN Ok(self, 0)
       ELSE LET removed == [self EXCEPT !.store = remove(self.store, account)]
                total == checked_sub_err(self.total, found.v)
            IN IF total.res # "Ok" THEN Err(removed, "Panic")
               ELSE Ok([removed EXCEPT !.total = total.v], found.v)

\* Faulty burn_unused: unused is returned but not reset.
burn_unused_keeps_unused(self) ==
    LET total == checked_sub_err(self.total, self.unused)
    IN IF total.res # "Ok" THEN Err(self, "Panic")
       ELSE Ok([self EXCEPT !.total = total.v], self.unused)

\* Faulty burn_unused: forgets to take unused off the total supply.
burn_unused_keeps_total(self) ==
    Ok([self EXCEPT !.unused = 0], self.unused)

burn_unused(self) ==
    LET total == checked_sub_err(self.total, self.unused)
    IN IF total.res # "Ok" THEN Err(self, "Panic")
       ELSE Ok([self EXCEPT !.total = total.v, !.unused = 0], self.unused)

\* Faulty mint: a new account is created without the minimum_balance floor.
mint_without_minimum(self, account, value) ==
    LET new_total == checked_add_err(self.total, value, U256Max)
        found == get(self.store, account)
    IN IF new_total.res # "Ok" THEN Err(self, new_total.res)
       ELSE
       LET after ==
               IF IsSome(found)
               THEN LET new_balance == try_add(found.v, value, TMax)
                    IN IF new_balance.res # "Ok"
                       THEN Err(self, BalancesError(new_balance.res))
                       ELSE IF ~(new_balance.v >= self.minimum_balance)
                       THEN Err(self, "BelowMinimum")
                       ELSE Ok([self EXCEPT !.store = set_at(self.store, found.idx,
                                                            account, new_balance.v)], 0)
               ELSE LET ins == try_insert_new(self.store, account, value)
                    IN IF ins.res # "Ok" THEN Err(self, ins.res)
                       ELSE Ok([self EXCEPT !.store = ins.shards], 0)
       IN IF after.res # "Ok" THEN after
          ELSE Ok([after.self EXCEPT !.total = new_total.v], 0)

\* Faulty mint: stores the new total before the account's checks.
mint_total_first(self, account, value) ==
    LET new_total == checked_add_err(self.total, value, U256Max)
        found == get(self.store, account)
        credited == [self EXCEPT !.total = new_total.v]
    IN IF new_total.res # "Ok" THEN Err(self, new_total.res)
       ELSE IF IsSome(found)
       THEN LET new_balance == try_add(found.v, value, TMax)
            IN IF new_balance.res # "Ok"
               THEN Err(credited, BalancesError(new_balance.res))
               ELSE IF ~(new_balance.v >= self.minimum_balance)
               THEN Err(credited, "BelowMinimum")
               ELSE Ok([credited EXCEPT !.store = set_at(self.store, found.idx,
                                                       account, new_balance.v)], 0)
       ELSE IF value < self.minimum_balance
       THEN Err(credited, "BelowMinimum")
       ELSE LET ins == try_insert_new(self.store, account, value)
            IN IF ins.res # "Ok" THEN Err(credited, ins.res)
               ELSE Ok([credited EXCEPT !.store = ins.shards], 0)

\* Faulty mint: the account is credited but total_supply is not raised.
mint_forgets_total(self, account, value) ==
    LET found == get(self.store, account)
        new_balance == try_add(found.v, value, TMax)
        ins == try_insert_new(self.store, account, value)
    IN IF IsSome(found)
       THEN IF new_balance.res # "Ok"
            THEN Err(self, BalancesError(new_balance.res))
            ELSE IF ~(new_balance.v >= self.minimum_balance)
            THEN Err(self, "BelowMinimum")
            ELSE Ok([self EXCEPT !.store = set_at(self.store, found.idx,
                                                 account, new_balance.v)], 0)
       ELSE IF value < self.minimum_balance THEN Err(self, "BelowMinimum")
       ELSE IF ins.res # "Ok" THEN Err(self, ins.res)
       ELSE Ok([self EXCEPT !.store = ins.shards], 0)

\* Faulty mint: inserts the account without looking it up.
mint_inserts_unchecked(self, account, value) ==
    LET new_total == checked_add_err(self.total, value, U256Max)
        ins == try_insert_new(self.store, account, value)
    IN IF new_total.res # "Ok" THEN Err(self, new_total.res)
       ELSE IF value < self.minimum_balance THEN Err(self, "BelowMinimum")
       ELSE IF ins.res # "Ok" THEN Err(self, ins.res)
       ELSE Ok([self EXCEPT !.store = ins.shards, !.total = new_total.v], 0)

mint(self, account, value) ==
    LET new_total == checked_add_err(self.total, value, U256Max)
        found == get(self.store, account)
    IN IF new_total.res # "Ok" THEN Err(self, new_total.res)
       ELSE
       LET after ==
               IF IsSome(found)
               THEN LET new_balance == try_add(found.v, value, TMax)
                    IN IF new_balance.res # "Ok"
                       THEN Err(self, BalancesError(new_balance.res))
                       ELSE IF ~(new_balance.v >= self.minimum_balance)
                       THEN Err(self, "BelowMinimum")
                       ELSE Ok([self EXCEPT !.store = set_at(self.store, found.idx,
                                                            account, new_balance.v)], 0)
               ELSE IF value < self.minimum_balance
               THEN Err(self, "BelowMinimum")
               ELSE LET ins == try_insert_new(self.store, account, value)
                    IN IF ins.res # "Ok" THEN Err(self, ins.res)
                       ELSE Ok([self EXCEPT !.store = ins.shards], 0)
       IN IF after.res # "Ok" THEN after
          ELSE Ok([after.self EXCEPT !.total = new_total.v], 0)
\* Faulty from leg: keeps `from` only when the remainder exceeds the minimum.
transfer_from_leg_strict(self, found_from, value) ==
    LET sub == try_sub(found_from.v, value)
        keeps == sub.res = "Ok" /\ sub.v > self.minimum_balance
        sweeps == sub.res = "Ok" /\ ~keeps
        new_unused == checked_add_err(self.unused, sub.v, U256Max)
    IN IF sub.res \notin {"Ok", "Zero"}
       THEN [res |-> BalancesError(sub.res), keeps |-> FALSE, sweeps |-> FALSE,
             remaining |-> 0, new_unused |-> 0]
       ELSE IF sweeps /\ new_unused.res # "Ok"
       THEN [res |-> new_unused.res, keeps |-> FALSE, sweeps |-> FALSE,
             remaining |-> 0, new_unused |-> 0]
       ELSE [res |-> "Ok", keeps |-> keeps, sweeps |-> sweeps,
             remaining |-> sub.v,
             new_unused |-> IF sweeps THEN new_unused.v ELSE 0]

\* The match on balance_from.try_sub(value): what becomes of `from`.
\* keeps: new_balance_from is Some(remaining); sweeps: new_unused is Some.
transfer_from_leg(self, found_from, value) ==
    LET sub == try_sub(found_from.v, value)
        keeps == sub.res = "Ok" /\ sub.v >= self.minimum_balance
        sweeps == sub.res = "Ok" /\ ~keeps
        new_unused == checked_add_err(self.unused, sub.v, U256Max)
    IN IF sub.res \notin {"Ok", "Zero"}
       THEN [res |-> BalancesError(sub.res), keeps |-> FALSE, sweeps |-> FALSE,
             remaining |-> 0, new_unused |-> 0]
       ELSE IF sweeps /\ new_unused.res # "Ok"
       THEN [res |-> new_unused.res, keeps |-> FALSE, sweeps |-> FALSE,
             remaining |-> 0, new_unused |-> 0]
       ELSE [res |-> "Ok", keeps |-> keeps, sweeps |-> sweeps,
             remaining |-> sub.v,
             new_unused |-> IF sweeps THEN new_unused.v ELSE 0]

\* Faulty to leg: the floor is not applied to an existing entry.
transfer_to_leg_floor_for_new_only(self, to, value, keeps_from) ==
    LET found_to == get(self.store, to)
        new_balance_to == try_add(found_to.v, value, TMax)
    IN IF IsSome(found_to)
       THEN IF new_balance_to.res # "Ok"
            THEN [res |-> BalancesError(new_balance_to.res),
                  store |-> self.store, insert |-> FALSE]
            ELSE [res |-> "Ok", insert |-> FALSE,
                  store |-> set_at(self.store, found_to.idx, to, new_balance_to.v)]
       ELSE IF keeps_from /\ has_space_err(self.store) # "Ok"
            THEN [res |-> has_space_err(self.store),
                  store |-> self.store, insert |-> FALSE]
            ELSE IF ~(value >= self.minimum_balance)
            THEN [res |-> "BelowMinimum", store |-> self.store, insert |-> FALSE]
            ELSE [res |-> "Ok", store |-> self.store, insert |-> TRUE]

\* Faulty to leg: asks for spare room even when `from` frees its slot.
transfer_to_leg_always_needs_space(self, to, value, keeps_from) ==
    LET found_to == get(self.store, to)
        new_balance_to == try_add(found_to.v, value, TMax)
    IN IF IsSome(found_to)
       THEN IF new_balance_to.res # "Ok"
            THEN [res |-> BalancesError(new_balance_to.res),
                  store |-> self.store, insert |-> FALSE]
            ELSE IF ~(new_balance_to.v >= self.minimum_balance)
            THEN [res |-> "BelowMinimum", store |-> self.store, insert |-> FALSE]
            ELSE [res |-> "Ok", insert |-> FALSE,
                  store |-> set_at(self.store, found_to.idx, to, new_balance_to.v)]
       ELSE IF has_space_err(self.store) # "Ok"
            THEN [res |-> has_space_err(self.store),
                  store |-> self.store, insert |-> FALSE]
            ELSE IF ~(value >= self.minimum_balance)
            THEN [res |-> "BelowMinimum", store |-> self.store, insert |-> FALSE]
            ELSE [res |-> "Ok", store |-> self.store, insert |-> TRUE]

\* The match on get_mut(&to): the store with `to` credited when it has an
\* entry, insert (insert_balance_to is Some(value)) when it has none.
transfer_to_leg(self, to, value, keeps_from) ==
    LET found_to == get(self.store, to)
        new_balance_to == try_add(found_to.v, value, TMax)
    IN IF IsSome(found_to)
       THEN IF new_balance_to.res # "Ok"
            THEN [res |-> BalancesError(new_balance_to.res),
                  store |-> self.store, insert |-> FALSE]
            ELSE IF ~(new_balance_to.v >= self.minimum_balance)
            THEN [res |-> "BelowMinimum", store |-> self.store, insert |-> FALSE]
            ELSE [res |-> "Ok", insert |-> FALSE,
                  store |-> set_at(self.store, found_to.idx, to, new_balance_to.v)]
       ELSE IF keeps_from /\ has_space_err(self.store) # "Ok"
            THEN [res |-> has_space_err(self.store),
                  store |-> self.store, insert |-> FALSE]
            ELSE IF ~(value >= self.minimum_balance)
            THEN [res |-> "BelowMinimum", store |-> self.store, insert |-> FALSE]
            ELSE [res |-> "Ok", store |-> self.store, insert |-> TRUE]

\* The writes after both legs validated: `from` rewritten or removed at
\* idx_from, `to` inserted when it had no entry, unused replaced.
transfer_commit(self, from, to, value, idx_from, from_leg, to_leg) ==
    LET stored ==
            IF from_leg.keeps
            THEN IF ~IsSome(get_at(to_leg.store, idx_from, from))
                 THEN [res |-> "Panic", store |-> to_leg.store]
                 ELSE
                 LET written == set_at(to_leg.store, idx_from, from,
                                       from_leg.remaining)
                     ins == try_insert_new(written, to, value)
                 IN IF to_leg.insert THEN
                        IF ins.res = "KeyPresent"
                        THEN [res |-> ins.res, store |-> written]
                        ELSE IF ins.res # "Ok"
                        THEN [res |-> "Panic", store |-> written]
                        ELSE [res |-> "Ok", store |-> ins.shards]
                    ELSE [res |-> "Ok", store |-> written]
            ELSE
                 LET removed == remove_at(to_leg.store, idx_from, from)
                     ins == try_insert_new_at(removed, idx_from, to, value)
                 IN IF to_leg.insert THEN
                        IF ins.res = "KeyPresent"
                        THEN [res |-> ins.res, store |-> removed]
                        ELSE IF ins.res # "Ok"
                        THEN [res |-> "Panic", store |-> removed]
                        ELSE [res |-> "Ok", store |-> ins.shards]
                    ELSE [res |-> "Ok", store |-> removed]
        committed == [self EXCEPT !.store = stored.store]
    IN IF stored.res # "Ok" THEN Err(committed, stored.res)
       ELSE IF from_leg.sweeps
       THEN Ok([committed EXCEPT !.unused = from_leg.new_unused], 0)
       ELSE Ok(committed, 0)

\* Faulty transfer: debits `from` in the store before `to` is validated.
transfer_legs_debits_first(self, from, to, value) ==
    LET found_from == get(self.store, from)
    IN IF ~IsSome(found_from) THEN Err(self, BalancesError("Underflow"))
       ELSE
       LET from_leg == transfer_from_leg(self, found_from, value)
       IN IF from_leg.res # "Ok" THEN Err(self, from_leg.res)
          ELSE
          LET debited ==
                  [self EXCEPT !.store =
                      IF from_leg.keeps
                      THEN set_at(self.store, found_from.idx, from, from_leg.remaining)
                      ELSE remove_at(self.store, found_from.idx, from)]
              to_leg == transfer_to_leg(self, to, value, from_leg.keeps)
          IN IF to_leg.res # "Ok" THEN Err(debited, to_leg.res)
             ELSE transfer_commit(self, from, to, value, found_from.idx,
                                  from_leg, to_leg)

\* transfer from the lookup of `from` on, for a non-zero `to` other than `from`
transfer_legs(self, from, to, value) ==
    LET found_from == get(self.store, from)
    IN IF ~IsSome(found_from) THEN Err(self, BalancesError("Underflow"))
       ELSE
       LET from_leg == transfer_from_leg(self, found_from, value)
       IN IF from_leg.res # "Ok" THEN Err(self, from_leg.res)
          ELSE
          LET to_leg == transfer_to_leg(self, to, value, from_leg.keeps)
          IN IF to_leg.res # "Ok" THEN Err(self, to_leg.res)
             ELSE transfer_commit(self, from, to, value, found_from.idx,
                                  from_leg, to_leg)

\* Faulty transfer: the zero `to` is treated as an ordinary account.
transfer_credits_zero(self, from, to, value) ==
    IF from = to THEN Ok(self, 0)
    ELSE transfer_legs(self, from, to, value)

\* Faulty transfer: no early return for from == to.
transfer_without_self_check(self, from, to, value) ==
    IF to = 0 THEN burn(self, from, value)
    ELSE transfer_legs(self, from, to, value)

transfer(self, from, to, value) ==
    IF to = 0 THEN burn(self, from, value)
    ELSE IF from = to THEN Ok(self, 0)
    ELSE transfer_legs(self, from, to, value)

\* Faulty transfer_all: a new `to` entry needs a free slot beforehand.
transfer_all_needs_space(self, from, to) ==
    LET found_from == get(self.store, from)
    IN IF ~IsSome(found_from) THEN Ok(self, 0)
       ELSE IF from = to THEN Ok(self, found_from.v)
       ELSE IF ~IsSome(get(self.store, to)) /\ has_space_err(self.store) # "Ok"
       THEN Err(self, has_space_err(self.store))
       ELSE transfer(self, from, to, found_from.v)

transfer_all(self, from, to) ==
    LET found_from == get(self.store, from)
    IN IF ~IsSome(found_from) THEN Ok(self, 0)
       ELSE IF from = to THEN Ok(self, found_from.v)
       ELSE
       LET idx_from == found_from.idx
           balance_from == found_from.v
           found_to == get(self.store, to)
           new_balance_to == try_add(found_to.v, balance_from, TMax)
           to_leg ==
               IF IsSome(found_to)
               THEN IF new_balance_to.res # "Ok"
                    THEN [res |-> BalancesError(new_balance_to.res),
                          store |-> self.store, insert |-> FALSE]
                    ELSE IF ~(new_balance_to.v >= self.minimum_balance)
                    THEN [res |-> "BelowMinimum", store |-> self.store,
                          insert |-> FALSE]
                    ELSE [res |-> "Ok", insert |-> FALSE,
                          store |-> set_at(self.store, found_to.idx, to,
                                           new_balance_to.v)]
               ELSE IF ~(balance_from >= self.minimum_balance)
                    THEN [res |-> "BelowMinimum", store |-> self.store,
                          insert |-> FALSE]
                    ELSE [res |-> "Ok", store |-> self.store, insert |-> TRUE]
       IN IF to_leg.res # "Ok" THEN Err(self, to_leg.res)
          ELSE IF ~IsSome(get_at(to_leg.store, idx_from, from))
          THEN Err([self EXCEPT !.store = to_leg.store], "Panic")
          ELSE
          LET removed == remove_at(to_leg.store, idx_from, from)
              ins == try_insert_new_at(removed, idx_from, to, balance_from)
          IN IF to_leg.insert THEN
                 IF ins.res = "KeyPresent"
                 THEN Err([self EXCEPT !.store = removed], ins.res)
                 ELSE IF ins.res # "Ok"
                 THEN Err([self EXCEPT !.store = removed], "Panic")
                 ELSE Ok([self EXCEPT !.store = ins.shards], balance_from)
             ELSE Ok([self EXCEPT !.store = removed], balance_from)
(***************************************************************************)
(* Allowances: self is [expiry_period, store]; the store maps              *)
(* <<owner, spender>> to <<amount, expiry>>.                               *)
(***************************************************************************)
Allowances_try_new(capacities, expiry_period) ==
    LET store == try_new(capacities)
    IN IF store.res # "Ok" THEN Err(None, store.res)
       ELSE Ok([expiry_period |-> expiry_period, store |-> store.shards], 0)

Allowances_allocate_next_shard(self) ==
    LET r == alloc_next_shard(self.store)
    IN Ok([self EXCEPT !.store = r.shards], r.ret)

set_expiry_period(self, expiry_period) ==
    Ok([self EXCEPT !.expiry_period = expiry_period], 0)

\* self.expiry_period.saturating_add(current_bn)
expiry(self, current_bn) ==
    IF self.expiry_period + current_bn > u32_MAX THEN u32_MAX
    ELSE self.expiry_period + current_bn

Allowances_get(self, owner, spender) ==
    LET found == get(self.store, <<owner, spender>>)
    IN IF IsSome(found) THEN found.v[1] ELSE 0

\* Faulty decrease: the MAX sentinel is spent like a finite amount.
decrease_spends_infinite(self, owner, spender, value, current_bn) ==
    IF owner = spender THEN Ok(self, 0)
    ELSE
    LET found == get(self.store, <<owner, spender>>)
        key == <<owner, spender>>
    IN IF ~IsSome(found) THEN Err(self, "Insufficient")
       ELSE
       LET sub == try_sub(found.v[1], value)
       IN IF sub.res = "Ok"
          THEN Ok([self EXCEPT !.store = set_at(self.store, found.idx, key,
                                      <<sub.v, expiry(self, current_bn)>>)], 0)
          ELSE IF sub.res = "Underflow" THEN Err(self, "Insufficient")
          ELSE IF sub.res = "Zero"
          THEN Ok([self EXCEPT !.store = remove_at(self.store, found.idx, key)], 0)
          ELSE Err(self, "Panic")

\* Faulty decrease: a finite remainder keeps the expiry it had.
decrease_keeps_expiry(self, owner, spender, value, current_bn) ==
    IF owner = spender THEN Ok(self, 0)
    ELSE
    LET found == get(self.store, <<owner, spender>>)
        key == <<owner, spender>>
    IN IF ~IsSome(found) THEN Err(self, "Insufficient")
       ELSE IF found.v[1] = AllowanceMax
       THEN Ok([self EXCEPT !.store = set_at(self.store, found.idx, key,
                                   <<found.v[1], expiry(self, current_bn)>>)], 0)
       ELSE
       LET sub == try_sub(found.v[1], value)
       IN IF sub.res = "Ok"
          THEN Ok([self EXCEPT !.store = set_at(self.store, found.idx, key,
                                      <<sub.v, found.v[2]>>)], 0)
          ELSE IF sub.res = "Underflow" THEN Err(self, "Insufficient")
          ELSE IF sub.res = "Zero"
          THEN Ok([self EXCEPT !.store = remove_at(self.store, found.idx, key)], 0)
          ELSE Err(self, "Panic")

\* Faulty decrease: an allowance whose expiry has passed cannot be spent.
decrease_checks_expiry(self, owner, spender, value, current_bn) ==
    IF owner = spender THEN Ok(self, 0)
    ELSE
    LET found == get(self.store, <<owner, spender>>)
        key == <<owner, spender>>
    IN IF ~IsSome(found) THEN Err(self, "Insufficient")
       ELSE IF found.v[2] < current_bn THEN Err(self, "Insufficient")
       ELSE IF found.v[1] = AllowanceMax
       THEN Ok([self EXCEPT !.store = set_at(self.store, found.idx, key,
                                   <<found.v[1], expiry(self, current_bn)>>)], 0)
       ELSE
       LET sub == try_sub(found.v[1], value)
       IN IF sub.res = "Ok"
          THEN Ok([self EXCEPT !.store = set_at(self.store, found.idx, key,
                                      <<sub.v, expiry(self, current_bn)>>)], 0)
          ELSE IF sub.res = "Underflow" THEN Err(self, "Insufficient")
          ELSE IF sub.res = "Zero"
          THEN Ok([self EXCEPT !.store = remove_at(self.store, found.idx, key)], 0)
          ELSE Err(self, "Panic")

decrease(self, owner, spender, value, current_bn) ==
    IF owner = spender THEN Ok(self, 0)
    ELSE
    LET found == get(self.store, <<owner, spender>>)
        key == <<owner, spender>>
    IN IF ~IsSome(found) THEN Err(self, "Insufficient")
       ELSE IF found.v[1] = AllowanceMax
       THEN Ok([self EXCEPT !.store = set_at(self.store, found.idx, key,
                                   <<found.v[1], expiry(self, current_bn)>>)], 0)
       ELSE
       LET sub == try_sub(found.v[1], value)
       IN IF sub.res = "Ok"
          THEN Ok([self EXCEPT !.store = set_at(self.store, found.idx, key,
                                      <<sub.v, expiry(self, current_bn)>>)], 0)
          ELSE IF sub.res = "Underflow" THEN Err(self, "Insufficient")
          ELSE IF sub.res = "Zero"
          THEN Ok([self EXCEPT !.store = remove_at(self.store, found.idx, key)], 0)
          ELSE Err(self, "Panic")

\* ret is the amount of the removed entry, 0 for Option::None
Allowances_remove(self, owner, spender) ==
    LET found == get(self.store, <<owner, spender>>)
    IN Ok([self EXCEPT !.store = remove(self.store, <<owner, spender>>)],
          IF IsSome(found) THEN found.v[1] ELSE 0)

\* Faulty set: no early return for owner == spender.
set_without_self_check(self, owner, spender, value, current_bn) ==
    IF NonZero_try_new(value).res = "Ok"
    THEN LET ins == try_insert(self.store, <<owner, spender>>,
                               <<value, expiry(self, current_bn)>>)
         IN IF ins.res # "Ok" THEN Err(self, ins.res)
            ELSE Ok([self EXCEPT !.store = ins.shards],
                    IF IsSome(ins.previous) THEN ins.previous.v[1] ELSE 0)
    ELSE Allowances_remove(self, owner, spender)

\* Faulty set: an amount equal to the stored one is not written again.
set_skips_equal_amount(self, owner, spender, value, current_bn) ==
    IF owner = spender THEN Ok(self, 0)
    ELSE IF NonZero_try_new(value).res = "Ok"
    THEN LET found == get(self.store, <<owner, spender>>)
             ins == try_insert(self.store, <<owner, spender>>,
                               <<value, expiry(self, current_bn)>>)
         IN IF IsSome(found) /\ found.v[1] = value THEN Ok(self, value)
            ELSE IF ins.res # "Ok" THEN Err(self, ins.res)
            ELSE Ok([self EXCEPT !.store = ins.shards],
                    IF IsSome(ins.previous) THEN ins.previous.v[1] ELSE 0)
    ELSE Allowances_remove(self, owner, spender)

set(self, owner, spender, value, current_bn) ==
    IF owner = spender THEN Ok(self, 0)
    ELSE IF NonZero_try_new(value).res = "Ok"
    THEN LET ins == try_insert(self.store, <<owner, spender>>,
                               <<value, expiry(self, current_bn)>>)
         IN IF ins.res # "Ok" THEN Err(self, ins.res)
            ELSE Ok([self EXCEPT !.store = ins.shards],
                    IF IsSome(ins.previous) THEN ins.previous.v[1] ELSE 0)
    ELSE Allowances_remove(self, owner, spender)

Allowances_try_append_shard(self, cap) ==
    LET r == try_append_shard(self.store, cap)
    IN IF r.res # "Ok" THEN Err(self, r.res)
       ELSE Ok([self EXCEPT !.store = r.shards], 0)

(***************************************************************************)
(* VftExtension: the service calls that grow the two stores.  The storage  *)
(* is taken to be accessible (get_mut()? returns the object).              *)
(***************************************************************************)
allocate_next_balances_shard(self) == allocate_next_shard(self)

allocate_next_allowances_shard(self) == Allowances_allocate_next_shard(self)

(***************************************************************************)
(* CustomUint<BITS, LIMBS>: self is [BITS, value].  A byte of the model    *)
(* has ByteBits bits (8 in the source); byte strings are sequences of      *)
(* numbers below ByteBase, least significant first.                        *)
(***************************************************************************)
\* bits.div_ceil(8)
n_bytes(bits) == (bits + ByteBits - 1) \div ByteBits

\* Uint::byte(i)
byte(self, i) == (self.value \div ByteBase^i) % ByteBase

\* the number a little-endian byte string denotes
RECURSIVE from_le_slice(_)
from_le_slice(slice) ==
    IF slice = <<>> THEN 0 ELSE Head(slice) + ByteBase * from_le_slice(Tail(slice))

\* Uint::<BITS, LIMBS>::try_from_le_slice: None when the number does not
\* fit BITS bits
try_from_le_slice(bits, slice) ==
    IF from_le_slice(slice) >= 2^bits THEN [res |-> "None", v |-> 0]
    ELSE [res |-> "Some", v |-> from_le_slice(slice)]

\* Faulty try_resize: only whole bytes above the target are checked, the
\* bits above the target width inside its last byte are cut off.
try_resize_checks_bytes_only(self, B2) ==
    LET current_bytes == n_bytes(self.BITS)
        target_bytes == n_bytes(B2)
        buffer == [i \in 1..current_bytes |-> byte(self, i - 1)]
        copy_len == IF current_bytes < target_bytes THEN current_bytes
                    ELSE target_bytes
    IN IF target_bytes < current_bytes
          /\ \E i \in target_bytes..(current_bytes - 1) : byte(self, i) # 0
       THEN [res |-> "Overflow", v |-> self]
       ELSE [res |-> "Ok",
             v |-> [BITS |-> B2,
                    value |-> from_le_slice(SubSeq(buffer, 1, copy_len)) % 2^B2]]

try_resize(self, B2) ==
    LET current_bytes == n_bytes(self.BITS)
        target_bytes == n_bytes(B2)
        buffer == [i \in 1..current_bytes |-> byte(self, i - 1)]
        copy_len == IF current_bytes < target_bytes THEN current_bytes
                    ELSE target_bytes
        made == try_from_le_slice(B2, SubSeq(buffer, 1, copy_len))
    IN IF target_bytes < current_bytes
          /\ \E i \in target_bytes..(current_bytes - 1) : byte(self, i) # 0
       THEN [res |-> "Overflow", v |-> self]
       ELSE IF made.res = "None" THEN [res |-> "Overflow", v |-> self]
       ELSE [res |-> "Ok", v |-> [BITS |-> B2, value |-> made.v]]

\* Faulty encode_to: the bytes are pushed most significant first.
encode_to_big_endian(self) ==
    [i \in 1..n_bytes(self.BITS) |-> byte(self, n_bytes(self.BITS) - i)]

encode_to(self) == [i \in 1..n_bytes(self.BITS) |-> byte(self, i - 1)]

\* input.read fails when fewer than n_bytes(BITS) bytes are left
decode(bits, input) ==
    IF Len(input) < n_bytes(bits)
    THEN [res |-> "Not enough data to fill buffer", v |-> [BITS |-> bits, value |-> 0]]
    ELSE LET made == try_from_le_slice(bits, SubSeq(input, 1, n_bytes(bits)))
         IN IF made.res = "None"
            THEN [res |-> "Overflow or invalid data",
                  v |-> [BITS |-> bits, value |-> 0]]
            ELSE [res |-> "Ok", v |-> [BITS |-> bits, value |-> made.v]]

(***************************************************************************)
(* Conversions between the amount types: U256 (0..U256Max), Balance        *)
(* (CustomUint<80, 2>, 0..TMax) and Allowance (CustomUint<72, 2>,          *)
(* 0..AllowanceMax).                                                       *)
(***************************************************************************)
\* TryFrom<U256> for Allowance
Allowance_try_from(value) ==
    IF value > AllowanceMax THEN [res |-> "Overflow", v |-> 0]
    ELSE [res |-> "Ok", v |-> value]

\* TryFrom<U256> for Balance
Balance_try_from(value) ==
    IF value > TMax THEN [res |-> "Overflow", v |-> 0]
    ELSE [res |-> "Ok", v |-> value]

\* From<Balance> for Allowance: try_resize().unwrap_or(MAX)
Allowance_from_Balance(value) ==
    IF value > AllowanceMax THEN AllowanceMax ELSE value

\* From<Allowance> for U256 keeps the number: MAX becomes AllowanceMax
U256_from_Allowance(value) == value

(***************************************************************************)
(* Vft: self is [allowances, balances]; source is                          *)
(* Syscall::message_source() and block_height is Syscall::block_height().  *)
(* A call returns its Result with the ledgers as it has left them: an Err  *)
(* carries the self holding what the call had written before the failing   *)
(* step.  The result also carries the emitted event.                       *)
(***************************************************************************)
NoEvent == [name |-> "None", from |-> 0, to |-> 0, value |-> 0]

VftOk(self, ret, event) ==
    [res |-> "Ok", self |-> self, ret |-> ret, event |-> event]

VftErr(self, e) ==
    [res |-> e, self |-> self, ret |-> FALSE, event |-> NoEvent]

allowance(self, owner, spender) ==
    IF owner = 0 \/ spender = 0 THEN VftErr(self, "Zero")
    ELSE LET stored == Allowances_get(self.allowances, owner, spender)
         IN VftOk(self, IF stored = AllowanceMax THEN U256Max
                        ELSE U256_from_Allowance(stored), NoEvent)

\* Faulty approve: an amount that does not fit the Allowance type is refused.
approve_refuses_overflow(self, source, spender, value, block_height) ==
    IF source = spender THEN VftOk(self, FALSE, NoEvent)
    ELSE IF Allowance_try_from(value).res # "Ok" THEN VftErr(self, "Overflow")
    ELSE IF source = 0 \/ spender = 0 THEN VftErr(self, "Zero")
    ELSE
    LET r == set(self.allowances, source, spender, value, block_height)
        changed == U256_from_Allowance(r.ret) # value
    IN IF r.res # "Ok" THEN VftErr(self, r.res)
       ELSE VftOk([self EXCEPT !.allowances = r.self], changed,
                  IF changed
                  THEN [name |-> "Approval", from |-> source, to |-> spender,
                        value |-> value]
                  ELSE NoEvent)

approve(self, source, spender, value, block_height) ==
    IF source = spender THEN VftOk(self, FALSE, NoEvent)
    ELSE
    LET approval == IF Allowance_try_from(value).res = "Ok"
                    THEN Allowance_try_from(value).v ELSE AllowanceMax
        reported == IF approval = AllowanceMax THEN U256Max ELSE value
    IN IF source = 0 \/ spender = 0 THEN VftErr(self, "Zero")
       ELSE
       LET r == set(self.allowances, source, spender, approval, block_height)
           \* previous.map(NonZero::cast).unwrap_or(U256::ZERO) != value
           changed == U256_from_Allowance(r.ret) # reported
       IN IF r.res # "Ok" THEN VftErr(self, r.res)
          ELSE VftOk([self EXCEPT !.allowances = r.self], changed,
                     IF changed
                     THEN [name |-> "Approval", from |-> source, to |-> spender,
                           value |-> reported]
                     ELSE NoEvent)

Vft_transfer(self, source, to, value) ==
    IF source = to \/ value = 0 THEN VftOk(self, FALSE, NoEvent)
    ELSE IF source = 0 THEN VftErr(self, "Zero")
    ELSE IF Balance_try_from(value).res # "Ok" THEN VftErr(self, "Overflow")
    ELSE
    LET r == transfer(self.balances, source, to, Balance_try_from(value).v)
    IN IF r.res # "Ok" THEN VftErr(self, r.res)
       ELSE VftOk([self EXCEPT !.balances = r.self], TRUE,
                  [name |-> "Transfer", from |-> source, to |-> to, value |-> value])

\* Faulty transfer_from: the spender's allowance is not charged.
transfer_from_skips_allowance(self, source, from, to, value, block_height) ==
    IF source = from THEN Vft_transfer(self, source, to, value)
    ELSE IF from = to \/ value = 0 THEN VftOk(self, FALSE, NoEvent)
    ELSE IF from = 0 \/ source = 0 THEN VftErr(self, "Zero")
    ELSE IF Balance_try_from(value).res # "Ok" THEN VftErr(self, "Overflow")
    ELSE
    LET t == transfer(self.balances, from, to, Balance_try_from(value).v)
    IN IF t.res # "Ok" THEN VftErr(self, t.res)
       ELSE VftOk([self EXCEPT !.balances = t.self], TRUE,
                  [name |-> "Transfer", from |-> from, to |-> to, value |-> value])

transfer_from(self, source, from, to, value, block_height) ==
    IF source = from THEN Vft_transfer(self, source, to, value)
    ELSE IF from = to \/ value = 0 THEN VftOk(self, FALSE, NoEvent)
    ELSE IF from = 0 \/ source = 0 THEN VftErr(self, "Zero")
    ELSE IF Balance_try_from(value).res # "Ok" THEN VftErr(self, "Overflow")
    ELSE
    LET _value == Balance_try_from(value).v
        d == decrease(self.allowances, from, source,
                      Allowance_from_Balance(_value), block_height)
        t == transfer(self.balances, from, to, _value)
    IN IF d.res # "Ok" THEN VftErr(self, d.res)
       ELSE IF t.res # "Ok"
       THEN VftErr([allowances |-> d.self, balances |-> t.self], t.res)
       ELSE VftOk([allowances |-> d.self, balances |-> t.self], TRUE,
                  [name |-> "Transfer", from |-> from, to |-> to, value |-> value])

\* VftExtension::transfer_all
Vft_transfer_all(self, source, to) ==
    IF source = to THEN VftOk(self, FALSE, NoEvent)
    ELSE IF source = 0 \/ to = 0 THEN VftErr(self, "Zero")
    ELSE
    LET t == transfer_all(self.balances, source, to)
        moved == [self EXCEPT !.balances = t.self]
    IN IF t.res # "Ok" THEN VftErr(moved, t.res)
       ELSE IF t.ret = 0 THEN VftOk(moved, FALSE, NoEvent)
       ELSE VftOk(moved, TRUE,
                  [name |-> "Transfer", from |-> source, to |-> to, value |-> t.ret])

transfer_all_from(self, source, from, to, block_height) ==
    IF source = from THEN Vft_transfer_all(self, source, to)
    ELSE IF from = to THEN VftOk(self, FALSE, NoEvent)
    ELSE IF source = 0 \/ from = 0 \/ to = 0 THEN VftErr(self, "Zero")
    ELSE
    LET t == transfer_all(self.balances, from, to)
        moved == [self EXCEPT !.balances = t.self]
        d == decrease(self.allowances, from, source,
                      Allowance_from_Balance(t.ret), block_height)
    IN IF t.res # "Ok" THEN VftErr(moved, t.res)
       ELSE IF t.ret = 0 THEN VftOk(moved, FALSE, NoEvent)
       ELSE IF d.res # "Ok" THEN VftErr(moved, d.res)
       ELSE VftOk([allowances |-> d.self, balances |-> t.self], TRUE,
                  [name |-> "Transfer", from |-> from, to |-> to, value |-> t.ret])

\* Faulty remove_expired_allowance: an entry expiring in the current block
\* counts as expired.
remove_expired_allowance_inclusive(self, owner, spender, block_height) ==
    IF owner = spender THEN VftOk(self, FALSE, NoEvent)
    ELSE IF owner = 0 \/ spender = 0 THEN VftErr(self, "Zero")
    ELSE
    LET found == get(self.allowances.store, <<owner, spender>>)
    IN IF ~IsSome(found) THEN VftOk(self, FALSE, NoEvent)
       ELSE IF ~(found.v[2] <= block_height)
       THEN VftErr(self, "AllowanceNotExpired")
       ELSE VftOk([self EXCEPT !.allowances =
                       Allowances_remove(self.allowances, owner, spender).self],
                  TRUE,
                  [name |-> "Approval", from |-> owner, to |-> spender, value |-> 0])

remove_expired_allowance(self, owner, spender, block_height) ==
    IF owner = spender THEN VftOk(self, FALSE, NoEvent)
    ELSE IF owner = 0 \/ spender = 0 THEN VftErr(self, "Zero")
    ELSE
    LET found == get(self.allowances.store, <<owner, spender>>)
    IN IF ~IsSome(found) THEN VftOk(self, FALSE, NoEvent)
       ELSE IF ~(found.v[2] < block_height)
       THEN VftErr(self, "AllowanceNotExpired")
       ELSE VftOk([self EXCEPT !.allowances =
                       Allowances_remove(self.allowances, owner, spender).self],
                  TRUE,
                  [name |-> "Approval", from |-> owner, to |-> spender, value |-> 0])

\* VftAdmin::do_mint, the call that brings tokens into the ledger
do_mint(self, to, value) ==
    IF value = 0 THEN VftOk(self, FALSE, NoEvent)
    ELSE IF to = 0 THEN VftErr(self, "Zero")
    ELSE IF Balance_try_from(value).res # "Ok" THEN VftErr(self, "Overflow")
    ELSE
    LET r == mint(self.balances, to, Balance_try_from(value).v)
    IN IF r.res # "Ok" THEN VftErr(self, r.res)
       ELSE VftOk([self EXCEPT !.balances = r.self], FALSE,
                  [name |-> "Transfer", from |-> 0, to |-> to, value |-> value])

(***************************************************************************)
(* The state machine.  component says which object the run drives (the     *)
(* others stay as constructed); last is the call just made, the Result     *)
(* variant it returned and the value inside Ok.                            *)
(***************************************************************************)
(***************************************************************************)
(* LeBytes<N> (src/math.rs): the array of N bytes as a sequence; byte i of *)
(* the array is element i + 1.  from_le_slice gives the number a sequence  *)
(* denotes when read little-endian.                                        *)
(***************************************************************************)
\* bytes[N - 1] = 1
LeBytes_ONE(N) == [i \in 1..N |-> IF i = N THEN 1 ELSE 0]

LeBytes_checked_add(self, rhs) ==
    LET RECURSIVE carry(_)
        \* the carry after byte i of the loop (i = 0: before the loop)
        carry(i) == IF i = 0 THEN 0
                    ELSE (self[i] + rhs[i] + carry(i - 1)) \div ByteBase
        result == [i \in 1..Len(self) |->
                      (self[i] + rhs[i] + carry(i - 1)) % ByteBase]
    IN IF carry(Len(self)) = 0 THEN [res |-> "Some", v |-> result]
       ELSE [res |-> "None", v |-> self]

\* self.0.iter().rev().cmp(other.0.iter().rev())
LeBytes_cmp(self, other) ==
    LET Differ == {i \in 1..Len(self) : self[i] # other[i]}
        top == CHOOSE i \in Differ : \A j \in Differ : j <= i
    IN IF Differ = {} THEN "Equal"
       ELSE IF self[top] < other[top] THEN "Less"
       ELSE "Greater"

(***************************************************************************)
(* RolesStorage and the AccessControl service                              *)
(* (crates/awesome-sails/access-control/src/lib.rs).  The storage is the   *)
(* BTreeMap roles as a function from the role ids that have an entry to    *)
(* RoleData records [members, admin_role_id].  A service call takes the    *)
(* message source as its first argument after the storage.                 *)
(***************************************************************************)
DEFAULT_ADMIN_ROLE == 0

has_role(self, role_id, account_id) ==
    /\ role_id \in DOMAIN self
    /\ account_id \in self[role_id].members

get_role_admin(self, role_id) ==
    IF role_id \in DOMAIN self THEN self[role_id].admin_role_id
    ELSE DEFAULT_ADMIN_ROLE

\* Faulty require_role: DEFAULT_ADMIN_ROLE does not stand in for the role.
require_role_exact(self, role_id, account_id) ==
    IF has_role(self, role_id, account_id) THEN "Ok" ELSE "AccessDenied"

require_role(self, role_id, account_id) ==
    IF has_role(self, role_id, account_id)
       \/ has_role(self, DEFAULT_ADMIN_ROLE, account_id)
    THEN "Ok"
    ELSE "AccessDenied"

\* entry(role_id).or_default().members.insert(target_account)
grant_role_unchecked(self, role_id, target_account) ==
    LET data == IF role_id \in DOMAIN self THEN self[role_id]
                ELSE [members |-> {}, admin_role_id |-> DEFAULT_ADMIN_ROLE]
    IN [r \in DOMAIN self \cup {role_id} |->
           IF r = role_id
           THEN [data EXCEPT !.members = @ \cup {target_account}]
           ELSE self[r]]

grant_role(self, message_source, role_id, target_account) ==
    LET allowed == require_role(self, get_role_admin(self, role_id), message_source)
    IN IF allowed # "Ok" THEN Err(self, allowed)
       ELSE Ok(grant_role_unchecked(self, role_id, target_account), 0)

\* Faulty grant_roles_batch: each role is checked just before it is granted.
grant_roles_batch_interleaved(self, message_source, role_ids, target_account) ==
    LET RECURSIVE each(_, _)
        each(storage, i) ==
            IF i > Len(role_ids) THEN Ok(storage, 0)
            ELSE LET allowed == require_role(storage,
                                             get_role_admin(storage, role_ids[i]),
                                             message_source)
                 IN IF allowed # "Ok" THEN Err(storage, allowed)
                    ELSE each(grant_role_unchecked(storage, role_ids[i],
                                                   target_account), i + 1)
    IN each(self, 1)

grant_roles_batch(self, message_source, role_ids, target_account) ==
    LET Denied == {i \in DOMAIN role_ids :
                       require_role(self, get_role_admin(self, role_ids[i]),
                                    message_source) # "Ok"}
        RECURSIVE grant(_, _)
        grant(storage, i) ==
            IF i > Len(role_ids) THEN storage
            ELSE grant(grant_role_unchecked(storage, role_ids[i], target_account),
                       i + 1)
    IN IF Denied # {} THEN Err(self, "AccessDenied")
       ELSE Ok(grant(self, 1), 0)

revoke_role(self, message_source, role_id, target_account) ==
    LET allowed == require_role(self, get_role_admin(self, role_id), message_source)
    IN IF allowed # "Ok" THEN Err(self, allowed)
       ELSE IF role_id \notin DOMAIN self THEN Ok(self, 0)
       ELSE Ok([self EXCEPT ![role_id].members = @ \ {target_account}], 0)

set_role_admin(self, message_source, role_id, new_admin_role_id) ==
    LET allowed == require_role(self, get_role_admin(self, role_id), message_source)
        data == IF role_id \in DOMAIN self THEN self[role_id]
                ELSE [members |-> {}, admin_role_id |-> DEFAULT_ADMIN_ROLE]
    IN IF allowed # "Ok" THEN Err(self, allowed)
       ELSE Ok([r \in DOMAIN self \cup {role_id} |->
                   IF r = role_id
                   THEN [data EXCEPT !.admin_role_id = new_admin_role_id]
                   ELSE self[r]], 0)

(***************************************************************************)
(* Pause and Pausable (utils/src/pause.rs).  A Pause is its flag; a        *)
(* Pausable is the record [storage, pause] of the wrapped item and the     *)
(* flag.  The wrapped storage is infallible: its get and get_mut hand out  *)
(* the item, replace and replace_with store the new item and return the    *)
(* old one.                                                                *)
(***************************************************************************)
Pause_pause(self) == [self |-> TRUE, ret |-> ~self]

Pause_resume(self) == [self |-> FALSE, ret |-> self]

Pausable_get(self) == Ok(self, self.storage)

Pausable_get_mut(self) ==
    IF self.pause THEN Err(self, "Paused")
    ELSE Ok(self, self.storage)

\* Faulty replace: the pause flag is not consulted.
Pausable_replace_unguarded(self, value) ==
    Ok([self EXCEPT !.storage = value], self.storage)

Pausable_replace(self, value) ==
    IF self.pause THEN Err(self, "Paused")
    ELSE Ok([self EXCEPT !.storage = value], self.storage)

\* f is the closure as a function defined on the wrapped item.
Pausable_replace_with(self, f) ==
    IF self.pause THEN Err(self, "Paused")
    ELSE Ok([self EXCEPT !.storage = f[self.storage]], self.storage)


InitCapacities == {<<3>>, <<1, 3>>}

MapInitCapacities == {<<>>, <<1>>, <<3>>, <<1, 3>>, <<7>>}

\* Every byte string of at most n bytes.
RECURSIVE ByteStrings(_)
ByteStrings(n) ==
    IF n = 0 THEN {<<>>}
    ELSE ByteStrings(n - 1) \cup
         {Append(s, b) : s \in {t \in ByteStrings(n - 1) : Len(t) = n - 1},
                         b \in 0..(ByteBase - 1)}

InitOf(c) ==
    /\ component = c
    /\ \E caps \in InitCapacities, m \in T :
           /\ c # "balances" => caps = <<3>> /\ m = 0
           /\ balances = Balances_try_new(caps, m).self
    /\ \E caps \in InitCapacities, p \in u32 :
           /\ c # "allowances" => caps = <<3>> /\ p = 0
           /\ allowances = Allowances_try_new(caps, p).self
    /\ \E caps \in MapInitCapacities :
           /\ c = "scenario4" => caps = <<7>>
           /\ c \notin {"map", "scenario4"} => caps = <<3>>
           /\ c = "map" => caps # <<7>>
           /\ sharded_map = try_new(caps).shards
    /\ \E bits \in Width, value \in 0..(2^MaxBits - 1) :
           /\ c # "math" => bits = MaxBits /\ value = 0
           /\ value < 2^bits
           /\ custom_uint = [BITS |-> bits, value |-> value]
    /\ \E paused \in BOOLEAN :
           /\ c # "pausable" => paused = FALSE
           /\ pause = paused
    /\ \E deployer \in 1..NumRoleActors :
           /\ c # "access_control" => deployer = 1
           /\ roles = (DEFAULT_ADMIN_ROLE :>
                          [members |-> {deployer}, admin_role_id |-> DEFAULT_ADMIN_ROLE])
    /\ \E bytes \in ByteStrings(MaxLeBytes) :
           /\ c # "le_bytes" => bytes = <<0>>
           /\ Len(bytes) >= 1
           /\ le_bytes = bytes
    /\ last = [op |-> "try_new", res |-> "Ok", ret |-> 0]

Init ==
    \E c \in {"balances", "allowances", "map", "scenario4", "vft", "math",
              "pausable", "access_control", "le_bytes"} : InitOf(c)

InitBalances == InitOf("balances")

InitAllowances == InitOf("allowances")

InitMap == InitOf("map")

InitScenario4 == InitOf("scenario4")

InitVft == InitOf("vft")

InitMath == InitOf("math")

\* One call on the Balances object: r is the operator's result.
BalancesCall(op, r) ==
    /\ component = "balances"
    /\ balances' = r.self
    /\ last' = [op |-> op, res |-> r.res, ret |-> r.ret]
    /\ UNCHANGED <<allowances, sharded_map, custom_uint, pause, roles, le_bytes, component>>

Mint == \E a \in NonZeroActor, v \in NonZeroT :
    BalancesCall("mint", mint(balances, a, v))

Burn == \E a \in NonZeroActor, v \in NonZeroT :
    BalancesCall("burn", burn(balances, a, v))

BurnAll == \E a \in NonZeroActor :
    BalancesCall("burn_all", burn_all(balances, a))

BurnUnused == BalancesCall("burn_unused", burn_unused(balances))

Transfer == \E a \in NonZeroActor, b \in ActorId, v \in NonZeroT :
    BalancesCall("transfer", transfer(balances, a, b, v))

TransferAll == \E a \in NonZeroActor, b \in NonZeroActor :
    BalancesCall("transfer_all", transfer_all(balances, a, b))

SetMinimumBalance == \E m \in T :
    BalancesCall("set_minimum_balance", set_minimum_balance(balances, m))

AllocateNextShard ==
    BalancesCall("allocate_next_shard", allocate_next_balances_shard(balances))

TryAppendShard == \E c \in CapacityInputs :
    /\ Len(balances.store) < MaxShards
    /\ BalancesCall("try_append_shard", Balances_try_append_shard(balances, c))

BalancesNext ==
    \/ Mint
    \/ Burn
    \/ BurnAll
    \/ BurnUnused
    \/ Transfer
    \/ TransferAll
    \/ SetMinimumBalance
    \/ AllocateNextShard
    \/ TryAppendShard

\* One call on the Allowances object.
AllowancesCall(op, r) ==
    /\ component = "allowances"
    /\ allowances' = r.self
    /\ last' = [op |-> op, res |-> r.res, ret |-> r.ret]
    /\ UNCHANGED <<balances, sharded_map, custom_uint, pause, roles, le_bytes, component>>

Set == \E o \in AllowanceActor, s \in AllowanceActor, v \in Allowance, bn \in u32 :
    AllowancesCall("set", set(allowances, o, s, v, bn))

Decrease ==
    \E o \in AllowanceActor, s \in AllowanceActor, v \in Allowance \ {0}, bn \in u32 :
        AllowancesCall("decrease", decrease(allowances, o, s, v, bn))

Remove == \E o \in AllowanceActor, s \in AllowanceActor :
    AllowancesCall("remove", Allowances_remove(allowances, o, s))

SetExpiryPeriod == \E p \in u32 :
    AllowancesCall("set_expiry_period", set_expiry_period(allowances, p))

AllowancesAllocateNextShard ==
    AllowancesCall("allocate_next_shard",
                   allocate_next_allowances_shard(allowances))

AllowancesTryAppendShard == \E c \in CapacityInputs :
    /\ Len(allowances.store) < MaxShards
    /\ AllowancesCall("try_append_shard", Allowances_try_append_shard(allowances, c))

AllowancesNext ==
    \/ Set
    \/ Decrease
    \/ Remove
    \/ SetExpiryPeriod
    \/ AllowancesAllocateNextShard
    \/ AllowancesTryAppendShard

\* One call on the bare ShardedMap: r holds the shards after the call.
MapCall(op, r, ret) ==
    /\ sharded_map' = r.shards
    /\ last' = [op |-> op, res |-> r.res, ret |-> ret]
    /\ UNCHANGED <<balances, allowances, custom_uint, pause, roles, le_bytes, component>>

MapAllocNextShard ==
    /\ component = "map"
    /\ LET r == alloc_next_shard(sharded_map)
       IN MapCall("alloc_next_shard", [res |-> "Ok", shards |-> r.shards], r.ret)

MapClearShards ==
    /\ component = "map"
    /\ MapCall("clear_shards", [res |-> "Ok", shards |-> clear_shards(sharded_map)], 0)

MapTryAppendShard == \E c \in MapCapacityInputs :
    /\ component = "map"
    /\ Len(sharded_map) < MaxShards
    /\ MapCall("try_append_shard", try_append_shard(sharded_map, c), 0)

MapTryInsert == \E k \in MapKey, v \in MapValue :
    /\ component = "map"
    /\ LET r == try_insert(sharded_map, k, v)
       IN MapCall("try_insert", r, IF IsSome(r.previous) THEN r.previous.v ELSE 0)

\* try_insert_new is unsafe: its caller guarantees that the key is absent.
MapTryInsertNew == \E k \in MapKey, v \in MapValue :
    /\ component = "map"
    /\ ~IsSome(get(sharded_map, k))
    /\ MapCall("try_insert_new", try_insert_new(sharded_map, k, v), 0)

MapRemove == \E k \in MapKey :
    /\ component = "map"
    /\ LET found == get(sharded_map, k)
       IN MapCall("remove", [res |-> "Ok", shards |-> remove(sharded_map, k)],
                  IF IsSome(found) THEN found.v ELSE 0)

MapNext ==
    \/ MapAllocNextShard
    \/ MapClearShards
    \/ MapTryAppendShard
    \/ MapTryInsert
    \/ MapTryInsertNew
    \/ MapRemove

\* Scenario 4 of the specification: the map of try_new([7]) under
\* alloc_next_shard and try_insert of up to NumScenarioKeys distinct keys.
Scenario4Alloc ==
    /\ component = "scenario4"
    /\ LET r == alloc_next_shard(sharded_map)
       IN MapCall("alloc_next_shard", [res |-> "Ok", shards |-> r.shards], r.ret)

Scenario4Insert == \E k \in ScenarioKey :
    /\ component = "scenario4"
    /\ LET r == try_insert(sharded_map, k, 1)
       IN MapCall("try_insert", r, IF IsSome(r.previous) THEN r.previous.v ELSE 0)

Scenario4Next == Scenario4Alloc \/ Scenario4Insert

\* The Vft service over both ledgers.
Vft == [allowances |-> allowances, balances |-> balances]

U256 == 0..U256Max

VftActor == AllowanceActor \cup {NumAllowanceActors + 1}

VftBlockHeight == {0, 1}

\* One exported call: r is the operator's result.
VftCall(op, r) ==
    /\ component = "vft"
    /\ allowances' = r.self.allowances
    /\ balances' = r.self.balances
    /\ last' = [op |-> op, res |-> r.res, ret |-> r.ret]
    /\ UNCHANGED <<sharded_map, custom_uint, pause, roles, le_bytes, component>>

VftAllocateNextBalancesShard ==
    LET r == allocate_next_balances_shard(balances)
    IN VftCall("allocate_next_balances_shard",
               VftOk([Vft EXCEPT !.balances = r.self], r.ret, NoEvent))

VftAllocateNextAllowancesShard ==
    LET r == allocate_next_allowances_shard(allowances)
    IN VftCall("allocate_next_allowances_shard",
               VftOk([Vft EXCEPT !.allowances = r.self], r.ret, NoEvent))

VftDoMint == \E to \in AllowanceActor, value \in U256 \ {0} :
    VftCall("do_mint", do_mint(Vft, to, value))

VftApprove == \E source \in AllowanceActor, spender \in AllowanceActor,
                 value \in U256, bn \in VftBlockHeight :
    VftCall("approve", approve(Vft, source, spender, value, bn))

VftTransfer == \E source \in AllowanceActor, to \in VftActor, value \in U256 \ {0} :
    VftCall("transfer", Vft_transfer(Vft, source, to, value))

\* With source = from the call is handed to transfer and recorded as such.
VftTransferFrom == \E source \in AllowanceActor, from \in AllowanceActor,
                      to \in VftActor, value \in U256 \ {0}, bn \in VftBlockHeight :
    VftCall(IF source = from THEN "transfer" ELSE "transfer_from",
            transfer_from(Vft, source, from, to, value, bn))

\* With source = from the call is handed to transfer_all and recorded as such.
VftTransferAllFrom == \E source \in AllowanceActor, from \in AllowanceActor,
                         to \in VftActor, bn \in VftBlockHeight :
    VftCall(IF source = from THEN "transfer_all" ELSE "transfer_all_from",
            transfer_all_from(Vft, source, from, to, bn))

VftRemoveExpiredAllowance == \E owner \in AllowanceActor, spender \in AllowanceActor,
                                bn \in VftBlockHeight :
    VftCall("remove_expired_allowance",
            remove_expired_allowance(Vft, owner, spender, bn))

VftNext ==
    \/ VftAllocateNextBalancesShard
    \/ VftAllocateNextAllowancesShard
    \/ VftDoMint
    \/ VftApprove
    \/ VftTransfer
    \/ VftTransferFrom
    \/ VftTransferAllFrom
    \/ VftRemoveExpiredAllowance

\* The byte strings handed to decode: every string of at most
\* n_bytes(MaxBits) bytes.
DecodeInputs == ByteStrings(n_bytes(MaxBits))

\* One call on the CustomUint: r is [res, v].
MathCall(op, r) ==
    /\ component = "math"
    /\ custom_uint' = r.v
    /\ last' = [op |-> op, res |-> r.res, ret |-> r.v.value]
    /\ UNCHANGED <<balances, allowances, sharded_map, pause, roles, le_bytes, component>>

\* encode the value, then decode the bytes at the same width
MathEncodeDecode ==
    MathCall("encode_decode", decode(custom_uint.BITS, encode_to(custom_uint)))

\* decode whatever bytes arrive; a failed decode yields no value and the
\* one held is kept
MathDecode == \E input \in DecodeInputs :
    LET r == decode(custom_uint.BITS, input)
    IN MathCall("decode", IF r.res = "Ok" THEN r ELSE [r EXCEPT !.v = custom_uint])

MathTryResize == \E B2 \in Width :
    MathCall("try_resize", try_resize(custom_uint, B2))

\* NonZero::try_new of the value held and of rhs, then try_sub
MathNonZeroTrySub == \E rhs \in 0..(2^MaxBits - 1) :
    /\ rhs < 2^custom_uint.BITS
    /\ LET lhs == NonZero_try_new(custom_uint.value)
           r == IF lhs.res # "Ok" THEN lhs
                ELSE IF NonZero_try_new(rhs).res # "Ok" THEN NonZero_try_new(rhs)
                ELSE try_sub(lhs.v, rhs)
       IN MathCall("try_sub",
                   [res |-> r.res,
                    v |-> IF r.res = "Ok" THEN [custom_uint EXCEPT !.value = r.v]
                          ELSE custom_uint])

MathNext ==
    \/ MathEncodeDecode
    \/ MathDecode
    \/ MathTryResize
    \/ MathNonZeroTrySub

\* The Pausable around the Balances ledger.  A handle obtained from get_mut
\* is used for one ledger call (mint, burn_all or allocate_next_shard);
\* replace installs a fresh ledger, replace_with one with another minimum.
PausableNext ==
    /\ component = "pausable"
    /\ UNCHANGED <<allowances, sharded_map, custom_uint, roles, le_bytes, component>>
    /\ LET self == [storage |-> balances, pause |-> pause]
           Call(op, r) ==
               /\ balances' = r.self.storage
               /\ pause' = r.self.pause
               /\ last' = [op |-> op, res |-> r.res, ret |-> 0]
           Through(op, handle, after) ==
               Call(op, IF handle.res # "Ok" THEN handle
                        ELSE [handle EXCEPT !.self.storage = after])
       IN \/ /\ UNCHANGED balances
             /\ pause' = Pause_pause(pause).self
             /\ last' = [op |-> "pause", res |-> "Ok", ret |-> Pause_pause(pause).ret]
          \/ /\ UNCHANGED balances
             /\ pause' = Pause_resume(pause).self
             /\ last' = [op |-> "resume", res |-> "Ok", ret |-> Pause_resume(pause).ret]
          \/ Call("get", Pausable_get(self))
          \/ \E a \in AllowanceActor, v \in NonZeroT :
                 Through("get_mut.mint", Pausable_get_mut(self),
                         mint(balances, a, v).self)
          \/ \E a \in AllowanceActor :
                 Through("get_mut.burn_all", Pausable_get_mut(self),
                         burn_all(balances, a).self)
          \/ Through("get_mut.allocate_next_shard", Pausable_get_mut(self),
                     allocate_next_shard(balances).self)
          \/ \E m \in T :
                 Call("replace",
                      Pausable_replace(self, Balances_try_new(<<3>>, m).self))
          \/ \E m \in T :
                 Call("replace_with",
                      Pausable_replace_with(self,
                          [item \in {balances} |-> set_minimum_balance(item, m).self]))


\* The AccessControl service over its RolesStorage: one message per step.
\* The calls return (); last.ret of a batch records how many entries of the
\* list the caller was entitled to grant.
AccessControlNext ==
    /\ component = "access_control"
    /\ UNCHANGED <<balances, allowances, sharded_map, custom_uint, pause, le_bytes,
                   component>>
    /\ \E source \in 1..NumRoleActors, target \in 1..NumRoleActors,
          role_id \in 0..NumRoles :
         LET Call(op, r, ret) ==
                 /\ roles' = r.self
                 /\ last' = [op |-> op, res |-> r.res, ret |-> ret]
         IN \/ Call("grant_role", grant_role(roles, source, role_id, target), 0)
            \/ Call("revoke_role", revoke_role(roles, source, role_id, target), 0)
            \/ \E new_admin \in 0..NumRoles :
                   Call("set_role_admin",
                        set_role_admin(roles, source, role_id, new_admin), 0)
            \/ \E role_ids \in UNION {[1..n -> 0..NumRoles] : n \in 0..MaxBatch} :
                   Call("grant_roles_batch",
                        grant_roles_batch(roles, source, role_ids, target),
                        Cardinality({i \in DOMAIN role_ids :
                            require_role(roles, get_role_admin(roles, role_ids[i]),
                                         source) = "Ok"}))

\* checked_add on the LeBytes held, of ONE or of any value of the same
\* width; None leaves the value as it is.
LeBytesNext ==
    /\ component = "le_bytes"
    /\ UNCHANGED <<balances, allowances, sharded_map, custom_uint, pause, roles,
                   component>>
    /\ \/ LET r == LeBytes_checked_add(le_bytes, LeBytes_ONE(Len(le_bytes)))
          IN /\ le_bytes' = r.v
             /\ last' = [op |-> "checked_add_one", res |-> r.res,
                         ret |-> from_le_slice(r.v)]
       \/ \E rhs \in ByteStrings(MaxLeBytes) :
              /\ Len(rhs) = Len(le_bytes)
              /\ LET r == LeBytes_checked_add(le_bytes, rhs)
                 IN /\ le_bytes' = r.v
                    /\ last' = [op |-> "checked_add", res |-> r.res,
                                ret |-> from_le_slice(r.v)]

Next ==
    \/ BalancesNext \/ AllowancesNext \/ MapNext \/ Scenario4Next \/ VftNext
    \/ MathNext \/ PausableNext \/ AccessControlNext \/ LeBytesNext

Spec == Init /\ [][Next]_vars

SpecBalances == InitBalances /\ [][BalancesNext]_vars

SpecAllowances == InitAllowances /\ [][AllowancesNext]_vars

SpecMap == InitMap /\ [][MapNext]_vars

SpecScenario4 == InitScenario4 /\ [][Scenario4Next]_vars

SpecVft == InitVft /\ [][VftNext]_vars

SpecMath == InitMath /\ [][MathNext]_vars

SpecPausable == InitOf("pausable") /\ [][PausableNext]_vars

SpecAccessControl == InitOf("access_control") /\ [][AccessControlNext]_vars

SpecLeBytes == InitOf("le_bytes") /\ [][LeBytesNext]_vars

\* The two ledgers, each under all its operations.
SpecLedgers ==
    (InitBalances \/ InitAllowances) /\ [][BalancesNext \/ AllowancesNext]_vars

(***************************************************************************)
(* Properties.                                                             *)
(***************************************************************************)
RECURSIVE SumOver(_, _)
SumOver(f, S) ==
    IF S = {} THEN 0
    ELSE LET k == CHOOSE k \in S : TRUE IN f[k] + SumOver(f, S \ {k})

\* The sum of all stored balance entries, shard by shard.
SumEntries(shards) ==
    SumSeq([i \in DOMAIN shards |->
               SumOver(shards[i].map.kv, DOMAIN shards[i].map.kv)])

\* C1: in every reachable state of Balances the stored balance entries
\* and unused add up to total_supply.
C1_SupplyConservation ==
    SumEntries(balances.store) + balances.unused = balances.total

\* A transfer has just swept dust into unused while other entries remain.
C1_Witness ==
    /\ last.op = "transfer" /\ last.res = "Ok"
    /\ balances.unused > 0
    /\ len(balances.store) >= 2
    /\ C1_SupplyConservation

\* C2: a transfer that returns an error, on the from side or on the to
\* side, leaves every entry, total_supply and unused as they were.
C2_TransferFailureIsAtomic ==
    \A from \in NonZeroActor, to \in ActorId, value \in NonZeroT :
        LET r == transfer(balances, from, to, value)
        IN r.res # "Ok" => r.self = balances

\* A transfer has just failed on the to side (no room for the new entry)
\* on a non-empty ledger, and from-side failures are possible as well.
C2_Witness ==
    /\ last.op = "transfer" /\ last.res = "CapacityOverflow"
    /\ len(balances.store) > 0
    /\ \E from \in NonZeroActor, to \in NonZeroActor, value \in NonZeroT :
           /\ IsSome(get(balances.store, from))
           /\ transfer(balances, from, to, value).res = "Insufficient"

\* C3: a mint or a burn that returns an error has mutated nothing.
C3_MintBurnFailureIsAtomic ==
    \A account \in NonZeroActor, value \in NonZeroT :
        LET m == mint(balances, account, value)
            b == burn(balances, account, value)
        IN /\ m.res # "Ok" => m.self = balances
           /\ b.res # "Ok" => b.self = balances

\* A mint has just failed on the account's own checks while the total
\* supply had room for it, and some burn fails in the same state.
C3_Witness ==
    /\ last.op = "mint" /\ last.res \in {"BelowMinimum", "CapacityOverflow"}
    /\ balances.total > 0 /\ balances.total < U256Max
    /\ \E account \in NonZeroActor, value \in NonZeroT :
           /\ IsSome(get(balances.store, account))
           /\ burn(balances, account, value).res = "Insufficient"

\* The objects the calls other than set_minimum_balance can leave behind.
BalancesWrites(self) ==
    {mint(self, a, v).self : a \in NonZeroActor, v \in NonZeroT}
    \cup {burn(self, a, v).self : a \in NonZeroActor, v \in NonZeroT}
    \cup {burn_all(self, a).self : a \in NonZeroActor}
    \cup {burn_unused(self).self}
    \cup {transfer(self, ft[1], ft[2], v).self :
              ft \in NonZeroActor \X ActorId, v \in NonZeroT}
    \cup {transfer_all(self, ft[1], ft[2]).self : ft \in NonZeroActor \X NonZeroActor}
    \cup {allocate_next_shard(self).self}
    \cup {Balances_try_append_shard(self, c).self : c \in CapacityInputs}

BelowMinimumEntry(self, account) ==
    /\ Balances_get(self, account) # 0
    /\ Balances_get(self, account) < self.minimum_balance

\* C4 as stated: no stored balance entry is below the current
\* minimum_balance.
C4_NoEntryBelowMinimum ==
    \A account \in NonZeroActor : ~BelowMinimumEntry(balances, account)

\* C4 amended: no call other than set_minimum_balance creates an entry
\* below minimum_balance or rewrites one to a value below it; an entry
\* below the minimum is one that set_minimum_balance left behind.
C4_WritesRespectMinimum ==
    \A after \in BalancesWrites(balances) :
        \A account \in NonZeroActor :
            BelowMinimumEntry(after, account) =>
                Balances_get(after, account) = Balances_get(balances, account)

\* A mint has just succeeded while another entry sits below the minimum.
C4_Witness ==
    /\ last.op = "mint" /\ last.res = "Ok"
    /\ \E account \in NonZeroActor : BelowMinimumEntry(balances, account)
    /\ \E account \in NonZeroActor :
           Balances_get(balances, account) >= balances.minimum_balance

\* C5: no stored allowance entry has owner equal to spender, and none has
\* amount zero.
C5_AllowanceEntriesWellFormed ==
    \A i \in DOMAIN allowances.store :
        \A key \in DOMAIN allowances.store[i].map.kv :
            /\ key[1] # key[2]
            /\ allowances.store[i].map.kv[key][1] # 0

\* A decrease has just removed or reduced an entry and another entry is
\* still stored; a self-directed and a zero set are possible calls here.
C5_Witness ==
    /\ last.op = "decrease" /\ last.res = "Ok"
    /\ len(allowances.store) >= 1
    /\ len(allowances.store) < NumAllowanceActors * (NumAllowanceActors - 1)
    /\ \E a \in AllowanceActor, bn \in u32 :
           set(allowances, a, a, AllowanceMax, bn).res = "Ok"
    /\ C5_AllowanceEntriesWellFormed

\* Whether burn(account, value) would leave dust: 0 < remainder < minimum.
LeavesDust(self, account, value) ==
    /\ Balances_get(self, account) > value
    /\ Balances_get(self, account) - value < self.minimum_balance

\* C6: a burn that leaves 0 < r < minimum_balance removes the account's
\* entry, adds exactly r to unused and takes exactly the burnt value (not
\* the whole balance) off total_supply.
C6_BurnSweepsDust ==
    \A account \in NonZeroActor, value \in NonZeroT :
        LeavesDust(balances, account, value) =>
            LET r == burn(balances, account, value)
                remainder == Balances_get(balances, account) - value
            IN /\ r.res = "Ok"
               /\ ~IsSome(get(r.self.store, account))
               /\ r.self.unused = balances.unused + remainder
               /\ r.self.total = balances.total - value

\* A burn has just succeeded and filled unused, and a further burn in this
\* state would leave dust again.
C6_Witness ==
    /\ last.op = "burn" /\ last.res = "Ok"
    /\ balances.unused > 0
    /\ \E account \in NonZeroActor, value \in NonZeroT :
           LeavesDust(balances, account, value)

\* C7: a successful transfer between two distinct non-zero accounts keeps
\* total_supply, credits `to` with exactly the value and either leaves
\* `from` with old - value (when that is at least minimum_balance) or
\* removes from's entry and adds the remainder to unused.
C7_TransferEffect ==
    \A from \in NonZeroActor, to \in NonZeroActor, value \in NonZeroT :
        LET r == transfer(balances, from, to, value)
            remainder == Balances_get(balances, from) - value
        IN (from # to /\ r.res = "Ok") =>
            /\ r.self.total = balances.total
            /\ Balances_get(r.self, to) = Balances_get(balances, to) + value
            /\ IF remainder >= balances.minimum_balance
               THEN /\ Balances_get(r.self, from) = remainder
                    /\ r.self.unused = balances.unused
               ELSE /\ ~IsSome(get(r.self.store, from))
                    /\ r.self.unused = balances.unused + remainder

\* A transfer has just succeeded, and in this state one transfer would keep
\* `from` at exactly the minimum and another would sweep its remainder.
C7_Witness ==
    /\ last.op = "transfer" /\ last.res = "Ok"
    /\ balances.minimum_balance > 0
    /\ \E from \in NonZeroActor, to \in NonZeroActor, value \in NonZeroT :
           /\ from # to
           /\ transfer(balances, from, to, value).res = "Ok"
           /\ Balances_get(balances, from) - value = balances.minimum_balance
    /\ \E from \in NonZeroActor, to \in NonZeroActor, value \in NonZeroT :
           /\ from # to
           /\ transfer(balances, from, to, value).res = "Ok"
           /\ LeavesDust(balances, from, value)

\* C8: a transfer to the zero account returns what burn returns and leaves
\* the state burn leaves.
C8_TransferToZeroIsBurn ==
    \A from \in NonZeroActor, value \in NonZeroT :
        transfer(balances, from, 0, value) = burn(balances, from, value)

\* A transfer has just succeeded, and in this state a transfer to the zero
\* account would burn part of an entry and another would be refused.
C8_Witness ==
    /\ last.op = "transfer" /\ last.res = "Ok"
    /\ \E from \in NonZeroActor, value \in NonZeroT :
           /\ transfer(balances, from, 0, value).res = "Ok"
           /\ transfer(balances, from, 0, value).self.total = balances.total - value
           /\ IsSome(get(transfer(balances, from, 0, value).self.store, from))
    /\ \E from \in NonZeroActor, value \in NonZeroT :
           transfer(balances, from, 0, value).res = "Insufficient"

\* C9: transfer(x, x, v), set(a, a, v) and decrease(a, a, v) return Ok and
\* leave the stored state as it was, whatever x holds.
C9_SelfDirectedIsNoOp ==
    /\ \A x \in NonZeroActor, value \in NonZeroT :
           transfer(balances, x, x, value) = Ok(balances, 0)
    /\ \A a \in AllowanceActor, value \in Allowance, bn \in u32 :
           /\ set(allowances, a, a, value, bn) = Ok(allowances, 0)
           /\ value # 0 => decrease(allowances, a, a, value, bn) = Ok(allowances, 0)

\* A transfer has just succeeded in a state where one account has no entry
\* and another holds less than the largest value.
C9_Witness ==
    /\ component = "balances"
    /\ last.op = "transfer" /\ last.res = "Ok"
    /\ \E x \in NonZeroActor : ~IsSome(get(balances.store, x))
    /\ \E x \in NonZeroActor :
           /\ IsSome(get(balances.store, x))
           /\ Balances_get(balances, x) < TMax
           /\ transfer(balances, x, x, TMax).res = "Ok"

\* The case of C10: `from` can pay, `to` is another non-zero account with
\* no entry, and no shard has free space.
FullAndToIsNew(self, from, to, value) ==
    /\ from # to
    /\ Balances_get(self, from) >= value
    /\ ~IsSome(get(self.store, to))
    /\ ~has_space(self.store)

\* Whether the transfer removes from's entry (remainder zero or dust).
RemovesFrom(self, from, value) ==
    \/ Balances_get(self, from) = value
    \/ Balances_get(self, from) - value < self.minimum_balance

\* C10 as stated: on a full store a transfer to a new `to` succeeds when it
\* removes from's entry, `to` taking from's shard, and fails with
\* CapacityOverflow, the state unchanged, when from's entry would remain.
C10_FullStoreTransfer ==
    \A from \in NonZeroActor, to \in NonZeroActor, value \in NonZeroT :
        FullAndToIsNew(balances, from, to, value) =>
            LET r == transfer(balances, from, to, value)
            IN IF RemovesFrom(balances, from, value)
               THEN /\ r.res = "Ok"
                    /\ get(r.self.store, to).idx = get(balances.store, from).idx
               ELSE r.res = "CapacityOverflow" /\ r.self = balances

\* C10 amended: the transfer that removes from's entry succeeds when the
\* value is at least minimum_balance and fails with BelowMinimum, the state
\* unchanged, when it is not.
C10_FullStoreTransferAboveMinimum ==
    \A from \in NonZeroActor, to \in NonZeroActor, value \in NonZeroT :
        FullAndToIsNew(balances, from, to, value) =>
            LET r == transfer(balances, from, to, value)
            IN IF ~RemovesFrom(balances, from, value)
               THEN r.res = "CapacityOverflow" /\ r.self = balances
               ELSE IF value >= balances.minimum_balance
               THEN /\ r.res = "Ok"
                    /\ get(r.self.store, to).idx = get(balances.store, from).idx
                    /\ ~IsSome(get(r.self.store, from))
               ELSE r.res = "BelowMinimum" /\ r.self = balances

\* A transfer has just succeeded on a store that is still full, and in this
\* state one transfer to a new account would free from's slot and succeed
\* and another would keep `from` and be refused.
C10_Witness ==
    /\ last.op = "transfer" /\ last.res = "Ok"
    /\ \E from \in NonZeroActor, to \in NonZeroActor, value \in NonZeroT :
           /\ FullAndToIsNew(balances, from, to, value)
           /\ RemovesFrom(balances, from, value)
           /\ transfer(balances, from, to, value).res = "Ok"
    /\ \E from \in NonZeroActor, to \in NonZeroActor, value \in NonZeroT :
           /\ FullAndToIsNew(balances, from, to, value)
           /\ ~RemovesFrom(balances, from, value)
           /\ transfer(balances, from, to, value).res = "CapacityOverflow"

(***************************************************************************)
(* Properties of ShardedMap.                                               *)
(***************************************************************************)
DeclaredCapacities(shards) == [i \in DOMAIN shards |-> shards[i].cap]

Unallocated(shards) == {i \in DOMAIN shards : shards[i].map.capacity = 0}

\* Every capacity list of up to MaxShards + 1 valid capacities.
CapacityLists == UNION {[1..n -> {1, 3, 7}] : n \in 0..(MaxShards + 1)}

\* 2^k - 1 shifted left by s bits
ShiftedOnes(k, s) == (2 ^ k - 1) * 2 ^ s

\* The capacities is_valid_capacity is written to accept: a run of ones
\* from bit 0, or a run of at least three ones above some zero bits;
\* never 0 and never usize::MAX.
ValidCapacityShape(c) ==
    /\ c # 0
    /\ c # usize_MAX
    /\ \/ \E k \in 1..UsizeBits : c = ShiftedOnes(k, 0)
       \/ \E k \in 3..UsizeBits, s \in 1..UsizeBits : c = ShiftedOnes(k, s)

IsDescending(caps) ==
    \A i \in DOMAIN caps, j \in DOMAIN caps : i < j => caps[i] >= caps[j]

\* The shards every call other than try_append_shard can leave behind.
MapWrites(shards) ==
    {alloc_next_shard(shards).shards, clear_shards(shards)}
    \cup {try_insert(shards, k, v).shards : k \in MapKey, v \in MapValue}
    \cup {try_insert_new(shards, k, v).shards :
              k \in {x \in MapKey : ~IsSome(get(shards, x))}, v \in MapValue}
    \cup {remove(shards, k) : k \in MapKey}

\* C11 as stated: in every reachable ShardedMap state the declared
\* capacities are non-increasing by shard index.
C11_ShardsOrderedLargestFirst ==
    IsDescending(DeclaredCapacities(sharded_map))

\* C11 amended: try_new orders the shards largest declared capacity first;
\* try_append_shard puts the new shard last whatever its capacity and keeps
\* the order of the others; no other call changes the declared capacities.
C11_NewSortsAppendGoesLast ==
    /\ \A caps \in CapacityLists :
           /\ try_new(caps).res = "Ok"
           /\ IsDescending(DeclaredCapacities(try_new(caps).shards))
           /\ Len(try_new(caps).shards) = Len(caps)
           /\ \A c \in {1, 3, 7} :
                  Cardinality({i \in DOMAIN caps : caps[i] = c})
                  = Cardinality({i \in DOMAIN caps : try_new(caps).shards[i].cap = c})
    /\ \A c \in MapCapacityInputs :
           LET r == try_append_shard(sharded_map, c)
           IN r.res = "Ok" =>
                  DeclaredCapacities(r.shards)
                  = Append(DeclaredCapacities(sharded_map), c)
    /\ \A after \in MapWrites(sharded_map) :
           DeclaredCapacities(after) = DeclaredCapacities(sharded_map)

\* try_append_shard has just put a larger shard behind a smaller one.
C11_Witness ==
    /\ last.op = "try_append_shard" /\ last.res = "Ok"
    /\ Len(sharded_map) = 2
    /\ sharded_map[1].cap < sharded_map[2].cap

\* C12: alloc_next_shard realizes at most one shard, the lowest-index
\* unallocated one, and returns true exactly when an unallocated shard
\* remains after the call.
C12_AllocNextShardReportsRemaining ==
    LET r == alloc_next_shard(sharded_map)
        before == Unallocated(sharded_map)
        after == Unallocated(r.shards)
    IN /\ Cardinality(before \ after) <= 1
       /\ after \subseteq before
       /\ before # {} =>
              /\ before \ after = {FirstShard(before)}
              /\ \A i \in before : FirstShard(before) <= i
              /\ r.shards[FirstShard(before)].map.capacity
                     >= sharded_map[FirstShard(before)].cap
       /\ before = {} => r.shards = sharded_map
       /\ \A i \in DOMAIN sharded_map :
              /\ r.shards[i].cap = sharded_map[i].cap
              /\ r.shards[i].map.kv = sharded_map[i].map.kv
              /\ i \notin before \ after => r.shards[i] = sharded_map[i]
       /\ Len(r.shards) = Len(sharded_map)
       /\ r.ret <=> after # {}

\* alloc_next_shard has just realized the first of two declared shards
\* and returned true.
C12_Witness ==
    /\ last.op = "alloc_next_shard" /\ last.ret = TRUE
    /\ Len(sharded_map) = 2
    /\ Unallocated(sharded_map) = {2}

\* C13: a declared shard is unallocated until alloc_next_shard realizes
\* it: it adds nothing to capacity() or has_space(), the declaration leaves
\* the entries alone, no entry is placed in it and an insert that would
\* need it fails with CapacityOverflow; try_append_shard with an invalid
\* capacity fails with InvalidCapacity and changes nothing.
C13_DeclaredShardIsUnallocated ==
    /\ \A caps \in CapacityLists :
           LET fresh == try_new(caps).shards
           IN /\ Unallocated(fresh) = DOMAIN fresh
              /\ capacity(fresh) = 0
              /\ ~has_space(fresh)
              /\ \A k \in MapKey, v \in MapValue :
                     try_insert(fresh, k, v).res = "CapacityOverflow"
    /\ \A c \in MapCapacityInputs :
           LET r == try_append_shard(sharded_map, c)
           IN IF ~ValidCapacityShape(c)
              THEN r.res = "InvalidCapacity" /\ r.shards = sharded_map
              ELSE /\ r.res = "Ok"
                   /\ Len(r.shards) = Len(sharded_map) + 1
                   /\ SubSeq(r.shards, 1, Len(sharded_map)) = sharded_map
                   /\ Len(sharded_map) + 1 \in Unallocated(r.shards)
                   /\ r.shards[Len(r.shards)].map.kv = EmptyKv
                   /\ capacity(r.shards) = capacity(sharded_map)
                   /\ has_space(r.shards) = has_space(sharded_map)
                   /\ len(r.shards) = len(sharded_map)
                   /\ \A k \in MapKey, v \in MapValue :
                          /\ try_insert(r.shards, k, v).res
                                 = try_insert(sharded_map, k, v).res
                          /\ try_insert(r.shards, k, v).idx # Len(r.shards)
    /\ \A i \in Unallocated(sharded_map) : sharded_map[i].map.kv = EmptyKv
    /\ capacity(sharded_map)
           = SumSeq([i \in DOMAIN sharded_map |->
                        IF i \in Unallocated(sharded_map) THEN 0
                        ELSE sharded_map[i].map.capacity])
    /\ \A k \in MapKey, v \in MapValue :
           (/\ ~IsSome(get(sharded_map, k))
            /\ \A i \in DOMAIN sharded_map \ Unallocated(sharded_map) :
                   map_len(sharded_map[i].map) = sharded_map[i].map.capacity)
           => /\ try_insert(sharded_map, k, v).res = "CapacityOverflow"
              /\ try_insert(sharded_map, k, v).shards = sharded_map
              /\ try_insert_new(sharded_map, k, v).res = "CapacityOverflow"

\* An insert has just failed for want of room while a declared shard is
\* still unallocated behind a full one.
C13_Witness ==
    /\ last.op = "try_insert" /\ last.res = "CapacityOverflow"
    /\ Len(sharded_map) = 2
    /\ Unallocated(sharded_map) = {2}
    /\ map_len(sharded_map[1].map) = sharded_map[1].map.capacity

\* try_insert of the keys first..last in turn, each with value 1: the
\* Result variants in call order and the shards after the last call.
RECURSIVE InsertKeys(_, _, _)
InsertKeys(shards, first, last_key) ==
    IF first > last_key THEN [res |-> <<>>, shards |-> shards]
    ELSE LET r == try_insert(shards, first, 1)
             rest == InsertKeys(r.shards, first + 1, last_key)
         IN [res |-> <<r.res>> \o rest.res, shards |-> rest.shards]

\* C14 as stated: try_new([0]) fails with InvalidCapacity, try_new([7])
\* succeeds, and on the map it returns 7 inserts of distinct keys succeed
\* and the 8th fails with CapacityOverflow.
C14_Scenario4OnNewMap ==
    /\ try_new(<<0>>).res = "InvalidCapacity"
    /\ try_new(<<7>>).res = "Ok"
    /\ sharded_map = try_new(<<7>>).shards =>
           LET r == InsertKeys(sharded_map, 1, 8)
           IN /\ \A i \in 1..7 : r.res[i] = "Ok"
              /\ r.res[8] = "CapacityOverflow"

\* C14 amended: try_new([0]) fails with InvalidCapacity and try_new([7])
\* succeeds; on the map it returns every insert fails with CapacityOverflow
\* until alloc_next_shard has realized the shard, and after that 7 inserts
\* of distinct keys succeed and an insert of a further key fails with
\* CapacityOverflow, leaving the map unchanged.
C14_Scenario4AfterAllocation ==
    /\ try_new(<<0>>).res = "InvalidCapacity"
    /\ try_new(<<7>>).res = "Ok"
    /\ \A k \in ScenarioKey :
           try_insert(try_new(<<7>>).shards, k, 1).res = "CapacityOverflow"
    /\ LET allocated == alloc_next_shard(try_new(<<7>>).shards).shards
           r == InsertKeys(allocated, 1, 8)
       IN /\ \A i \in 1..7 : r.res[i] = "Ok"
          /\ r.res[8] = "CapacityOverflow"
          /\ len(r.shards) = 7
    /\ \A k \in ScenarioKey :
           LET r == try_insert(sharded_map, k, 1)
           IN IF IsSome(get(sharded_map, k))
              THEN r.res = "Ok" /\ len(r.shards) = len(sharded_map)
              ELSE IF Unallocated(sharded_map) = {} /\ len(sharded_map) < 7
              THEN r.res = "Ok" /\ len(r.shards) = len(sharded_map) + 1
              ELSE r.res = "CapacityOverflow" /\ r.shards = sharded_map

\* The map of try_new([7]) holds 7 keys and an insert has just failed with
\* CapacityOverflow.
C14_Witness ==
    /\ component = "scenario4"
    /\ len(sharded_map) = 7
    /\ DeclaredCapacities(sharded_map) = <<7>>
    /\ last.op = "try_insert" /\ last.res = "CapacityOverflow"

\* The capacity class as the claim words it: a single set bit, or at least
\* three consecutive one-bits followed by zero or more zero bits; neither 0
\* nor the all-ones value.
ClaimedCapacityShape(c) ==
    /\ c # 0
    /\ c # usize_MAX
    /\ \/ \E s \in 0..(UsizeBits - 1) : c = 2 ^ s
       \/ \E k \in 3..UsizeBits, s \in 0..UsizeBits : c = ShiftedOnes(k, s)

RECURSIVE AllocUntilFalse(_, _)
AllocUntilFalse(shards, calls) ==
    LET r == alloc_next_shard(shards)
    IN IF r.ret /\ calls <= Len(shards)
       THEN AllocUntilFalse(r.shards, calls + 1)
       ELSE [shards |-> r.shards, calls |-> calls + 1, ret |-> r.ret]

\* C16: from any reachable state with n declared shards, calling
\* alloc_next_shard until it returns false ends after at most max(n, 1)
\* calls with every declared shard allocated and no entry changed.
C16_AllocLoopTerminatesFullyAllocated ==
    LET r == AllocUntilFalse(sharded_map, 0)
        n == Len(sharded_map)
    IN /\ r.ret = FALSE
       /\ r.calls <= (IF n >= 1 THEN n ELSE 1)
       /\ r.calls = (IF Unallocated(sharded_map) = {} THEN 1
                     ELSE Cardinality(Unallocated(sharded_map)))
       /\ Unallocated(r.shards) = {}
       /\ Len(r.shards) = n
       /\ \A i \in DOMAIN r.shards :
              /\ r.shards[i].map.capacity >= r.shards[i].cap
              /\ r.shards[i].map.kv = sharded_map[i].map.kv
       /\ capacity(r.shards) >= max_capacity(sharded_map)

\* The loop has just ended on a map of two shards: the call that realized
\* the second shard returned false.
C16_Witness ==
    /\ last.op = "alloc_next_shard" /\ last.ret = FALSE
    /\ Len(sharded_map) = 2
    /\ Unallocated(sharded_map) = {}
    /\ len(sharded_map) = 0

\* The shards that hold key, and the allocated shards with a free slot.
HoldingShards(shards, key) ==
    {i \in DOMAIN shards : key \in DOMAIN shards[i].map.kv}

SpareShards(shards) ==
    {i \in DOMAIN shards : Cardinality(DOMAIN shards[i].map.kv)
                               < shards[i].map.capacity}

Lowest(S) == CHOOSE i \in S : \A j \in S : i <= j

\* after is before with key bound to value in shard idx, nothing else changed
PutAt(before, after, idx, key, value) ==
    /\ Len(after) = Len(before)
    /\ \A i \in DOMAIN before :
           /\ after[i].cap = before[i].cap
           /\ after[i].map.capacity = before[i].map.capacity
           /\ i # idx => after[i].map.kv = before[i].map.kv
    /\ DOMAIN after[idx].map.kv = DOMAIN before[idx].map.kv \cup {key}
    /\ after[idx].map.kv[key] = value
    /\ \A k \in DOMAIN before[idx].map.kv \ {key} :
           after[idx].map.kv[k] = before[idx].map.kv[k]

\* C17: try_insert(k, v) replaces the value of a stored k in place and
\* returns the previous value, even when every shard is full, leaving len
\* unchanged; otherwise it inserts (k, v) into the lowest-index shard with
\* spare capacity; with no room it fails with CapacityOverflow and the map
\* is unchanged.
C17_TryInsertReplacesOrFirstFit ==
    \A k \in MapKey, v \in MapValue :
        LET r == try_insert(sharded_map, k, v)
            holding == HoldingShards(sharded_map, k)
            spare == SpareShards(sharded_map)
        IN IF holding # {}
           THEN /\ r.res = "Ok"
                /\ r.idx = Lowest(holding)
                /\ IsSome(r.previous)
                /\ r.previous.v = sharded_map[Lowest(holding)].map.kv[k]
                /\ PutAt(sharded_map, r.shards, Lowest(holding), k, v)
                /\ len(r.shards) = len(sharded_map)
           ELSE IF spare # {}
           THEN /\ r.res = "Ok"
                /\ r.idx = Lowest(spare)
                /\ ~IsSome(r.previous)
                /\ PutAt(sharded_map, r.shards, Lowest(spare), k, v)
                /\ len(r.shards) = len(sharded_map) + 1
           ELSE /\ r.res = "CapacityOverflow"
                /\ r.shards = sharded_map

\* try_insert has just replaced a value while no shard had room left.
C17_Witness ==
    /\ last.op = "try_insert" /\ last.res = "Ok" /\ last.ret # 0
    /\ len(sharded_map) > 0
    /\ ~has_space(sharded_map)
    /\ Unallocated(sharded_map) = {}

(***************************************************************************)
(* Properties of the shard-growth service calls.                           *)
(***************************************************************************)
\* The call r on the store `before` realized a shard.
AllocatedAShard(before, r) ==
    Unallocated(r.self.store) # Unallocated(before)

\* C18 as stated: allocate_next_balances_shard and
\* allocate_next_allowances_shard return true if and only if the call
\* allocated a new shard.
C18_ReturnsWhetherAllocated ==
    /\ LET r == allocate_next_balances_shard(balances)
       IN r.ret <=> AllocatedAShard(balances.store, r)
    /\ LET r == allocate_next_allowances_shard(allowances)
       IN r.ret <=> AllocatedAShard(allowances.store, r)

\* What the two service calls do return: true if and only if the call
\* allocated a shard and an unallocated shard remains after it; false when
\* the call allocated the last unallocated shard and when there was
\* nothing to allocate.
C18_ReturnsWhetherMoreRemain ==
    /\ LET r == allocate_next_balances_shard(balances)
       IN /\ r.res = "Ok"
          /\ r.ret <=> (/\ AllocatedAShard(balances.store, r)
                        /\ Unallocated(r.self.store) # {})
          /\ r.ret <=> Unallocated(r.self.store) # {}
          /\ Cardinality(Unallocated(balances.store) \ Unallocated(r.self.store)) <= 1
    /\ LET r == allocate_next_allowances_shard(allowances)
       IN /\ r.res = "Ok"
          /\ r.ret <=> (/\ AllocatedAShard(allowances.store, r)
                        /\ Unallocated(r.self.store) # {})
          /\ r.ret <=> Unallocated(r.self.store) # {}
          /\ Cardinality(Unallocated(allowances.store) \ Unallocated(r.self.store)) <= 1

\* allocate_next_balances_shard has just returned true with one shard
\* left to allocate: the next call allocates it and returns false.
C18_Witness ==
    /\ component = "balances"
    /\ last.op = "allocate_next_shard" /\ last.ret = TRUE
    /\ Unallocated(balances.store) = {Len(balances.store)}
    /\ AllocatedAShard(balances.store, allocate_next_balances_shard(balances))
    /\ allocate_next_balances_shard(balances).ret = FALSE

(***************************************************************************)
(* Properties of Allowances::decrease.                                     *)
(***************************************************************************)
\* current_block + expiry_period, saturating at u32::MAX
RefreshedExpiry(self, current_bn) ==
    IF current_bn + self.expiry_period >= u32_MAX THEN u32_MAX
    ELSE current_bn + self.expiry_period

\* after is before without key in shard idx, nothing else changed
RemovedAt(before, after, idx, key) ==
    /\ Len(after) = Len(before)
    /\ \A i \in DOMAIN before :
           /\ after[i].cap = before[i].cap
           /\ after[i].map.capacity = before[i].map.capacity
           /\ i # idx => after[i].map.kv = before[i].map.kv
    /\ DOMAIN after[idx].map.kv = DOMAIN before[idx].map.kv \ {key}
    /\ \A k \in DOMAIN after[idx].map.kv :
           after[idx].map.kv[k] = before[idx].map.kv[k]

StoredAllowance(self, owner, spender) ==
    LET holding == HoldingShards(self.store, <<owner, spender>>)
    IN self.store[Lowest(holding)].map.kv[<<owner, spender>>]

HasAllowance(self, owner, spender) ==
    HoldingShards(self.store, <<owner, spender>>) # {}

\* C19: while the stored allowance of (owner, spender) is the MAX sentinel
\* every decrease, with any value at any block, leaves the amount at MAX
\* and only sets the stored expiry to current_block + expiry_period
\* (saturating); so does any further decrease after it.
C19_InfiniteAllowanceOnlyRefreshes ==
    \A o \in AllowanceActor, s \in AllowanceActor :
        (/\ HasAllowance(allowances, o, s)
         /\ StoredAllowance(allowances, o, s)[1] = AllowanceMax)
        => \A v \in Allowance \ {0}, bn \in u32 :
               LET r == decrease(allowances, o, s, v, bn)
                   holding == HoldingShards(allowances.store, <<o, s>>)
               IN /\ r.res = "Ok"
                  /\ r.self.expiry_period = allowances.expiry_period
                  /\ PutAt(allowances.store, r.self.store, Lowest(holding),
                           <<o, s>>,
                           <<AllowanceMax, RefreshedExpiry(allowances, bn)>>)
                  /\ \A w \in Allowance \ {0}, bm \in u32 :
                         LET again == decrease(r.self, o, s, w, bm)
                         IN /\ again.res = "Ok"
                            /\ StoredAllowance(again.self, o, s)
                                   = <<AllowanceMax, RefreshedExpiry(allowances, bm)>>

\* A decrease has just succeeded and the infinite allowances are still
\* stored, one of them with an expiry that differs from the other's.
C19_Witness ==
    /\ last.op = "decrease" /\ last.res = "Ok"
    /\ \A o \in AllowanceActor, s \in AllowanceActor :
           o # s => /\ HasAllowance(allowances, o, s)
                    /\ StoredAllowance(allowances, o, s)[1] = AllowanceMax
    /\ \E o \in AllowanceActor, s \in AllowanceActor :
           /\ o # s
           /\ StoredAllowance(allowances, o, s)[2]
                  # StoredAllowance(allowances, s, o)[2]

\* C20: for owner # spender and a finite stored allowance a,
\* decrease(owner, spender, v, block) fails with Insufficient and changes
\* nothing when there is no entry or v > a, removes the entry when v = a,
\* and otherwise stores a - v with expiry block + expiry_period
\* (saturating).
C20_FiniteDecrease ==
    \A o \in AllowanceActor, s \in AllowanceActor :
        o # s =>
        \A v \in Allowance \ {0}, bn \in u32 :
            LET r == decrease(allowances, o, s, v, bn)
                holding == HoldingShards(allowances.store, <<o, s>>)
                a == StoredAllowance(allowances, o, s)[1]
            IN IF ~HasAllowance(allowances, o, s)
               THEN r.res = "Insufficient" /\ r.self = allowances
               ELSE a # AllowanceMax =>
                    IF v > a
                    THEN r.res = "Insufficient" /\ r.self = allowances
                    ELSE IF v = a
                    THEN /\ r.res = "Ok"
                         /\ r.self.expiry_period = allowances.expiry_period
                         /\ RemovedAt(allowances.store, r.self.store,
                                      Lowest(holding), <<o, s>>)
                    ELSE /\ r.res = "Ok"
                         /\ r.self.expiry_period = allowances.expiry_period
                         /\ PutAt(allowances.store, r.self.store, Lowest(holding),
                                  <<o, s>>,
                                  <<a - v, RefreshedExpiry(allowances, bn)>>)

\* A decrease has just failed with Insufficient although every pair has a
\* finite allowance: the value exceeded the stored amount.
C20_Witness ==
    /\ last.op = "decrease" /\ last.res = "Insufficient"
    /\ \A o \in AllowanceActor, s \in AllowanceActor :
           o # s => /\ HasAllowance(allowances, o, s)
                    /\ StoredAllowance(allowances, o, s)[1] < AllowanceMax

(***************************************************************************)
(* Properties of Allowances::set.                                          *)
(***************************************************************************)
\* The amount stored before the call, 0 for none (the returned Option).
PreviousAmount(self, owner, spender) ==
    IF HasAllowance(self, owner, spender)
    THEN StoredAllowance(self, owner, spender)[1] ELSE 0

\* What a successful set leaves behind and returns.
SetEffect(self, r, o, s, v, bn) ==
    /\ r.res = "Ok"
    /\ r.ret = PreviousAmount(self, o, s)
    /\ r.self.expiry_period = self.expiry_period
    /\ IF v = 0
       THEN /\ ~HasAllowance(r.self, o, s)
            /\ IF HasAllowance(self, o, s)
               THEN RemovedAt(self.store, r.self.store,
                              Lowest(HoldingShards(self.store, <<o, s>>)), <<o, s>>)
               ELSE r.self = self
       ELSE PutAt(self.store, r.self.store,
                  IF HasAllowance(self, o, s)
                  THEN Lowest(HoldingShards(self.store, <<o, s>>))
                  ELSE Lowest(SpareShards(self.store)),
                  <<o, s>>, <<v, RefreshedExpiry(self, bn)>>)

\* C21: for owner # spender, set returns the previous amount, stores a
\* non-zero value (MAX verbatim) with expiry
\* min(block + expiry_period, u32::MAX), also when the amount is the one
\* already stored, and removes the entry for a zero value.  The only set
\* that does not succeed is one with a non-zero value for a pair without
\* an entry while no allocated shard has a free slot: it fails with
\* CapacityOverflow and changes nothing.
C21_SetStoresUnlessFull ==
    \A o \in AllowanceActor, s \in AllowanceActor :
        o # s =>
        \A v \in Allowance, bn \in u32 :
            LET r == set(allowances, o, s, v, bn)
            IN IF /\ v # 0
                  /\ ~HasAllowance(allowances, o, s)
                  /\ SpareShards(allowances.store) = {}
               THEN r.res = "CapacityOverflow" /\ r.self = allowances
               ELSE SetEffect(allowances, r, o, s, v, bn)

\* A set has just returned the amount that the only stored entry still
\* has, with an expiry above the expiry period: the amount was stored
\* again at a later block.
C21_Witness ==
    /\ last.op = "set" /\ last.res = "Ok" /\ last.ret # 0
    /\ len(allowances.store) = 1
    /\ \E o \in AllowanceActor, s \in AllowanceActor :
           /\ HasAllowance(allowances, o, s)
           /\ StoredAllowance(allowances, o, s)[1] = last.ret
           /\ StoredAllowance(allowances, o, s)[1] = AllowanceMax
           /\ StoredAllowance(allowances, o, s)[2] > allowances.expiry_period

(***************************************************************************)
(* Properties of transfer_all, burn_all, burn_unused and the floor.        *)
(***************************************************************************)
\* Only the accounts in touched may differ between the two objects.
OtherEntriesKept(before, after, touched) ==
    \A a \in NonZeroActor \ touched : Balances_get(after, a) = Balances_get(before, a)

\* The shards keep their declared and realized capacities.
ShardsKept(before, after) ==
    /\ Len(after.store) = Len(before.store)
    /\ \A i \in DOMAIN before.store :
           /\ after.store[i].cap = before.store[i].cap
           /\ after.store[i].map.capacity = before.store[i].map.capacity

\* C22 as stated: every successful transfer_all removes from's entry and
\* credits `to` with from's former balance; total and unused stay, the
\* amount is returned, lack of capacity is never an error and a failure
\* changes nothing.
C22_TransferAllAlwaysRemovesFrom ==
    \A from \in NonZeroActor, to \in NonZeroActor :
        LET r == transfer_all(balances, from, to)
            moved == Balances_get(balances, from)
        IN /\ r.res # "CapacityOverflow"
           /\ r.res # "Ok" => r.self = balances
           /\ r.res = "Ok" =>
                  /\ r.ret = moved
                  /\ Balances_get(r.self, from) = 0
                  /\ Balances_get(r.self, to) = Balances_get(balances, to) + moved
                  /\ r.self.total = balances.total
                  /\ r.self.unused = balances.unused

\* C22 amended: for from # to, transfer_all(from, to) of an existing
\* balance b makes the to-side checks of transfer (Overflow, BelowMinimum)
\* and on success removes from's entry, credits `to` with exactly b, keeps
\* total_supply and unused and returns b, as transfer(from, to, b) does; it
\* never fails for lack of capacity and a failure changes nothing.  With
\* from = to it returns b and with no entry for from it returns zero, in
\* both cases changing nothing.
C22_TransferAllMovesWholeBalance ==
    \A from \in NonZeroActor, to \in NonZeroActor :
        LET r == transfer_all(balances, from, to)
            b == Balances_get(balances, from)
            bt == Balances_get(balances, to)
            floor_ok == IF bt = 0 THEN b >= balances.minimum_balance
                        ELSE bt + b >= balances.minimum_balance
        IN /\ r.res \in {"Ok", "Overflow", "BelowMinimum"}
           /\ r.res # "Ok" => r.self = balances
           /\ b = 0 => r.res = "Ok" /\ r.ret = 0 /\ r.self = balances
           /\ from = to => r.res = "Ok" /\ r.ret = b /\ r.self = balances
           /\ (b # 0 /\ from # to) =>
                  /\ r.res = (IF bt + b > TMax THEN "Overflow"
                              ELSE IF ~floor_ok THEN "BelowMinimum" ELSE "Ok")
                  /\ r.res = transfer(balances, from, to, b).res
                  /\ r.self = transfer(balances, from, to, b).self
                  /\ r.res = "Ok" =>
                         /\ r.ret = b
                         /\ Balances_get(r.self, from) = 0
                         /\ Balances_get(r.self, to) = bt + b
                         /\ r.self.total = balances.total
                         /\ r.self.unused = balances.unused
                         /\ r.self.minimum_balance = balances.minimum_balance
                         /\ OtherEntriesKept(balances, r.self, {from, to})
                         /\ ShardsKept(balances, r.self)

\* transfer_all has just moved a balance to an account while no shard had
\* a free slot.
C22_Witness ==
    /\ last.op = "transfer_all" /\ last.res = "Ok" /\ last.ret # 0
    /\ ~has_space(balances.store)
    /\ \E a \in NonZeroActor : Balances_get(balances, a) = last.ret
    /\ Cardinality({a \in NonZeroActor : Balances_get(balances, a) # 0}) >= 3

\* C23: burn_all(account) never fails: it removes the account's entry
\* whatever minimum_balance is, returns the removed amount (zero when
\* there was no entry), takes exactly that amount off total_supply and
\* leaves unused and every other entry unchanged.
C23_BurnAllRemovesEntry ==
    \A account \in NonZeroActor :
        LET r == burn_all(balances, account)
            b == Balances_get(balances, account)
        IN /\ r.res = "Ok"
           /\ r.ret = b
           /\ Balances_get(r.self, account) = 0
           /\ r.self.total = balances.total - b
           /\ r.self.unused = balances.unused
           /\ r.self.minimum_balance = balances.minimum_balance
           /\ OtherEntriesKept(balances, r.self, {account})
           /\ ShardsKept(balances, r.self)
           /\ b = 0 => r.self = balances

\* burn_all has just removed an entry that was below minimum_balance while
\* dust of another account waits in unused.
C23_Witness ==
    /\ last.op = "burn_all" /\ last.res = "Ok"
    /\ last.ret # 0 /\ last.ret < balances.minimum_balance
    /\ balances.unused # 0
    /\ balances.total # 0

\* C24: burn_unused() takes exactly the current unused amount off
\* total_supply, returns it, resets unused to zero and changes no balance
\* entry; a call right after it returns zero and changes nothing.
C24_BurnUnusedResets ==
    LET r == burn_unused(balances)
        again == burn_unused(r.self)
    IN /\ r.res = "Ok"
       /\ r.ret = balances.unused
       /\ r.self.total = balances.total - balances.unused
       /\ r.self.unused = 0
       /\ r.self.store = balances.store
       /\ r.self.minimum_balance = balances.minimum_balance
       /\ again.res = "Ok"
       /\ again.ret = 0
       /\ again.self = r.self

\* burn_unused has just burnt swept dust while balances remain.
C24_Witness ==
    /\ last.op = "burn_unused" /\ last.res = "Ok" /\ last.ret # 0
    /\ balances.unused = 0
    /\ balances.total # 0
    /\ SumEntries(balances.store) = balances.total

\* The from side of transfer(from, to, v) passes: from holds at least v,
\* and dust it would leave fits into unused.
FromSidePasses(self, from, v) ==
    LET bf == Balances_get(self, from)
    IN /\ bf >= v
       /\ (bf - v # 0 /\ bf - v < self.minimum_balance)
              => self.unused + (bf - v) <= U256Max

\* from's entry stays after transfer(from, to, v)
FromKeepsEntry(self, from, v) ==
    /\ Balances_get(self, from) - v # 0
    /\ Balances_get(self, from) - v >= self.minimum_balance

\* C25 as stated: a credit of v < minimum_balance, by mint or by transfer,
\* fails with BelowMinimum when the recipient has no entry and is not
\* stopped by the floor when the recipient has an entry.
C25_FloorOnlyForNewEntries ==
    \A a \in NonZeroActor, v \in NonZeroT :
        v < balances.minimum_balance =>
        /\ balances.total + v <= U256Max =>
               IF Balances_get(balances, a) = 0
               THEN mint(balances, a, v).res = "BelowMinimum"
               ELSE mint(balances, a, v).res # "BelowMinimum"
        /\ \A from \in NonZeroActor \ {a} :
               FromSidePasses(balances, from, v) =>
               IF Balances_get(balances, a) = 0
               THEN transfer(balances, from, a, v).res
                        \in {"BelowMinimum", "CapacityOverflow"}
               ELSE transfer(balances, from, a, v).res # "BelowMinimum"

\* C25 amended: a credit of v < minimum_balance fails with BelowMinimum
\* when the recipient has no entry (a transfer whose sender keeps its entry
\* fails with CapacityOverflow first when no shard has room).  When the
\* recipient has an entry the floor is applied to the resulting balance:
\* the credit succeeds when old + v >= minimum_balance, which is always so
\* for an entry that is itself at or above the minimum, and fails with
\* BelowMinimum when old + v is still below it.  A failed credit changes
\* nothing.
C25_FloorOnResultingBalance ==
    \A a \in NonZeroActor, v \in NonZeroT :
        v < balances.minimum_balance =>
        LET old == Balances_get(balances, a)
            credit == IF old + v > TMax THEN "Overflow"
                      ELSE IF old + v < balances.minimum_balance
                      THEN "BelowMinimum" ELSE "Ok"
        IN /\ balances.total + v <= U256Max =>
                  LET r == mint(balances, a, v)
                  IN /\ r.res = (IF old = 0 THEN "BelowMinimum" ELSE credit)
                     /\ r.res # "Ok" => r.self = balances
                     /\ r.res = "Ok" => Balances_get(r.self, a) = old + v
                     /\ (old # 0 /\ old >= balances.minimum_balance)
                            => r.res # "BelowMinimum"
           /\ \A from \in NonZeroActor \ {a} :
                  FromSidePasses(balances, from, v) =>
                  LET r == transfer(balances, from, a, v)
                  IN /\ r.res = (IF old # 0 THEN credit
                                 ELSE IF /\ FromKeepsEntry(balances, from, v)
                                         /\ ~has_space(balances.store)
                                 THEN "CapacityOverflow" ELSE "BelowMinimum")
                     /\ r.res # "Ok" => r.self = balances
                     /\ r.res = "Ok" => Balances_get(r.self, a) = old + v
                     /\ (old # 0 /\ old >= balances.minimum_balance)
                            => r.res # "BelowMinimum"

\* A transfer has just failed with BelowMinimum, and an account holds an
\* entry that a credit of 1 leaves below the minimum: mint and transfer to
\* it fail with BelowMinimum.
C25_Witness ==
    /\ last.op = "transfer" /\ last.res = "BelowMinimum"
    /\ \E a \in NonZeroActor, from \in NonZeroActor :
           /\ from # a
           /\ Balances_get(balances, a) # 0
           /\ Balances_get(balances, a) + 1 < balances.minimum_balance
           /\ FromSidePasses(balances, from, 1)
           /\ mint(balances, a, 1).res = "BelowMinimum"
           /\ transfer(balances, from, a, 1).res = "BelowMinimum"

(***************************************************************************)
(* Properties of the Vft service calls.                                    *)
(***************************************************************************)
\* The allowance is infinite or covers value.
AllowanceCovers(self, owner, spender, value) ==
    LET a == Allowances_get(self, owner, spender)
    IN a = AllowanceMax \/ a >= value

\* Every pair but <<owner, spender>> has the entry it had.
OtherAllowancesKept(before, after, owner, spender) ==
    \A o \in AllowanceActor, s \in AllowanceActor :
        <<o, s>> # <<owner, spender>> =>
            /\ HasAllowance(after, o, s) = HasAllowance(before, o, s)
            /\ HasAllowance(before, o, s) =>
                   StoredAllowance(after, o, s) = StoredAllowance(before, o, s)

\* C26: transfer_from(from, to, v) called by spender # from, with
\* from # to and v > 0, succeeds exactly when allowance(from, spender) is
\* infinite or >= v and the balance transfer itself succeeds; on success
\* a finite allowance decreases by exactly v (the entry is removed when
\* it reaches zero), an infinite one stays infinite, the other allowances
\* are kept and the balances change as in transfer; a call refused for
\* lack of allowance changes nothing and no failed call changes a balance;
\* when spender = from the call is transfer(to, v) and the allowances are
\* neither consulted nor modified.
C26_TransferFromSpendsAllowance ==
    component = "vft" =>
    \A source \in AllowanceActor, from \in AllowanceActor, to \in ActorId,
       value \in U256, bn \in u32 :
        LET r == transfer_from(Vft, source, from, to, value, bn)
            a == Allowances_get(allowances, from, source)
            fits == Balance_try_from(value).res = "Ok"
            t == transfer(balances, from, to, value)
        IN IF source = from
           THEN /\ r = Vft_transfer(Vft, source, to, value)
                /\ r.self.allowances = allowances
           ELSE (from # to /\ value > 0) =>
                /\ r.res = "Ok" <=> /\ AllowanceCovers(allowances, from, source, value)
                                    /\ fits /\ t.res = "Ok"
                /\ r.res = "Ok" =>
                       /\ r.ret = TRUE
                       /\ r.self.balances = t.self
                       /\ Allowances_get(r.self.allowances, from, source) =
                              IF a = AllowanceMax THEN AllowanceMax ELSE a - value
                       /\ HasAllowance(r.self.allowances, from, source) =
                              (a = AllowanceMax \/ a > value)
                       /\ OtherAllowancesKept(allowances, r.self.allowances,
                                              from, source)
                /\ ~AllowanceCovers(allowances, from, source, value) => r.self = Vft
                /\ r.res # "Ok" => r.self.balances = balances

\* A spender has just moved tokens of another account to a third one and
\* used up the allowance: no allowance entry is left.
C26_Witness ==
    /\ component = "vft"
    /\ last.op = "transfer_from" /\ last.res = "Ok" /\ last.ret = TRUE
    /\ len(allowances.store) = 0
    /\ Balances_get(balances, NumAllowanceActors + 1) > 0

\* C27 as stated: a successful approve(spender, value) returns true, and
\* emits an Approval event, if and only if the value reported by
\* allowance(owner, spender) after the call differs from the value
\* reported before it.
C27_ApproveReturnsWhetherReportChanged ==
    component = "vft" =>
    \A source \in AllowanceActor, spender \in AllowanceActor, value \in U256,
       bn \in u32 :
        LET r == approve(Vft, source, spender, value, bn)
            reported_before == allowance(Vft, source, spender).ret
            reported_after == allowance(r.self, source, spender).ret
        IN r.res = "Ok" =>
               /\ r.ret = (reported_after # reported_before)
               /\ (r.event.name = "Approval") = r.ret

\* What approve does return: true, with an Approval event carrying the
\* reported value, when the reported value changes or the approval is
\* infinite (the infinite case compares the stored number of the previous
\* entry, at most the sentinel, with U256::MAX); false and no event
\* otherwise.
C27_ApproveComparesStoredNumber ==
    component = "vft" =>
    \A source \in AllowanceActor, spender \in AllowanceActor, value \in U256,
       bn \in u32 :
        LET r == approve(Vft, source, spender, value, bn)
            reported_before == allowance(Vft, source, spender).ret
            reported_after == allowance(r.self, source, spender).ret
        IN r.res = "Ok" =>
               /\ r.ret = (reported_after # reported_before
                           \/ (source # spender /\ reported_after = U256Max))
               /\ (r.event.name = "Approval") = r.ret
               /\ r.ret => r.event.value = reported_after

\* An approve has just returned true and the store holds one allowance,
\* an infinite one.
C27_Witness ==
    /\ component = "vft"
    /\ last.op = "approve" /\ last.res = "Ok" /\ last.ret = TRUE
    /\ len(allowances.store) = 1
    /\ \E o \in AllowanceActor, s \in AllowanceActor :
           Allowances_get(allowances, o, s) = AllowanceMax

\* C28: approve(spender, v) by owner # spender with v not below the
\* largest value of the Allowance type fails only with CapacityOverflow,
\* when the pair is new and no allocated shard has room; otherwise it
\* stores the infinite sentinel, the Approval event and
\* allowance(owner, spender) report U256::MAX, and whatever the spender
\* then does with transfer_from, allowance(owner, spender) still reports
\* U256::MAX.
C28_LargeApprovalIsInfinite ==
    component = "vft" =>
    \A source \in AllowanceActor, spender \in AllowanceActor :
        source # spender =>
        \A value \in U256, bn \in VftBlockHeight :
            value >= AllowanceMax =>
            LET r == approve(Vft, source, spender, value, bn)
            IN IF ~HasAllowance(allowances, source, spender)
                  /\ ~has_space(allowances.store)
               THEN r.res = "CapacityOverflow" /\ r.self = Vft
               ELSE /\ r.res = "Ok" /\ r.ret = TRUE
                    /\ Allowances_get(r.self.allowances, source, spender) = AllowanceMax
                    /\ r.event = [name |-> "Approval", from |-> source,
                                  to |-> spender, value |-> U256Max]
                    /\ allowance(r.self, source, spender).ret = U256Max
                    /\ \A to \in ActorId, spent \in U256, later \in VftBlockHeight :
                           LET q == transfer_from(r.self, spender, source, to,
                                                  spent, later)
                           IN /\ allowance(q.self, source, spender).ret = U256Max
                              /\ (q.res # "Ok" /\ spent > 0 /\ to # source) =>
                                     ~(Balance_try_from(spent).res = "Ok"
                                       /\ transfer(r.self.balances, source, to,
                                                   spent).res = "Ok")

\* A spender has just moved tokens under the only allowance there is, and
\* that allowance is still the infinite sentinel.
C28_Witness ==
    /\ component = "vft"
    /\ last.op = "transfer_from" /\ last.res = "Ok" /\ last.ret = TRUE
    /\ len(allowances.store) = 1
    /\ \E o \in AllowanceActor, s \in AllowanceActor :
           Allowances_get(allowances, o, s) = AllowanceMax

(***************************************************************************)
(* Properties of CustomUint.                                               *)
(***************************************************************************)
\* C29: for every width and every value v of that width,
\* decode(encode(v)) = v, the encoding is exactly ceil(BITS / byte size)
\* bytes long, the least byte count that holds BITS bits, and decoding
\* any input shorter than that fails.
C29_CodecRoundTrip ==
    component = "math" =>
    LET encoded == encode_to(custom_uint)
        bits == custom_uint.BITS
    IN /\ decode(bits, encoded) = [res |-> "Ok", v |-> custom_uint]
       /\ Len(encoded) * ByteBits >= bits
       /\ (Len(encoded) - 1) * ByteBits < bits
       /\ \A input \in DecodeInputs :
              Len(input) < Len(encoded) => decode(bits, input).res # "Ok"
       /\ \A n \in 1..Len(encoded) :
              decode(bits, SubSeq(encoded, 1, n - 1)).res # "Ok"

\* A value with its top bit set, of a width that is not a whole number of
\* bytes and takes more than one byte, has just come back from
\* encode and decode.
C29_Witness ==
    /\ component = "math"
    /\ last.op = "encode_decode" /\ last.res = "Ok"
    /\ custom_uint.BITS % ByteBits # 0
    /\ custom_uint.BITS > ByteBits
    /\ custom_uint.value >= 2^(custom_uint.BITS - 1)
    /\ last.ret = custom_uint.value

\* C30: try_resize to a width that is not narrower always succeeds and
\* preserves the value; try_resize to a narrower width succeeds exactly
\* when the value fits the target width, preserving it, and otherwise
\* fails with Overflow; widening and then narrowing back returns the
\* value started from.
C30_ResizePreservesOrOverflows ==
    component = "math" =>
    \A B2 \in Width :
        LET r == try_resize(custom_uint, B2)
        IN /\ IF B2 >= custom_uint.BITS \/ custom_uint.value < 2^B2
              THEN r = [res |-> "Ok",
                        v |-> [BITS |-> B2, value |-> custom_uint.value]]
              ELSE r.res = "Overflow"
           /\ B2 >= custom_uint.BITS =>
                  try_resize(r.v, custom_uint.BITS) = [res |-> "Ok", v |-> custom_uint]

\* A try_resize has just failed with Overflow on a value that needs the
\* top bit of a width one above a whole number of bytes.
C30_Witness ==
    /\ component = "math"
    /\ last.op = "try_resize" /\ last.res = "Overflow"
    /\ custom_uint.BITS % ByteBits = 1
    /\ custom_uint.BITS > ByteBits
    /\ custom_uint.value = 2^(custom_uint.BITS - 1)

(***************************************************************************)
(* Properties of NonZero.                                                  *)
(***************************************************************************)
\* C31: NonZero::try_new(v) fails with ZeroError exactly when v is zero
\* and wraps v otherwise; for non-zero a and b, try_sub returns the Zero
\* error exactly when a = b, the Underflow error exactly when a < b and
\* NonZero(a - b) otherwise, so the wrapped value is never zero.
C31_NonZeroNeverWrapsZero ==
    component = "math" =>
    LET a == custom_uint.value
    IN /\ NonZero_try_new(a) = IF a = 0 THEN [res |-> "Zero", v |-> 0]
                               ELSE [res |-> "Ok", v |-> a]
       /\ a # 0 =>
          \A b \in 1..(2^custom_uint.BITS - 1) :
              LET r == try_sub(a, b)
              IN /\ (r.res = "Zero") = (a = b)
                 /\ (r.res = "Underflow") = (a < b)
                 /\ a > b => r = [res |-> "Ok", v |-> a - b]
                 /\ r.res = "Ok" => r.v # 0

\* A try_sub of two equal non-zero values has just ended in the Zero
\* error and the value held is still the non-zero one.
C31_Witness ==
    /\ component = "math"
    /\ last.op = "try_sub" /\ last.res = "Zero"
    /\ custom_uint.value > 1

(***************************************************************************)
(* Properties of Pausable.                                                 *)
(***************************************************************************)
\* C32: while the pause flag is set, get_mut, replace and replace_with
\* through the Pausable fail with Paused and leave the wrapped ledger
\* unchanged, while get still hands out the ledger; once the flag has been
\* cleared by resume the three mutating accesses succeed again.
C32_PausedRefusesMutation ==
    component = "pausable" =>
    LET self == [storage |-> balances, pause |-> pause]
        resumed == [self EXCEPT !.pause = Pause_resume(pause).self]
        paused == [self EXCEPT !.pause = Pause_pause(pause).self]
    IN /\ Pausable_get(self) = Ok(self, balances)
       /\ \A m \in T :
              LET value == Balances_try_new(<<3>>, m).self
                  f == [item \in {balances} |-> set_minimum_balance(item, m).self]
              IN /\ Pausable_get_mut(paused) = Err(paused, "Paused")
                 /\ Pausable_replace(paused, value) = Err(paused, "Paused")
                 /\ Pausable_replace_with(paused, f) = Err(paused, "Paused")
                 /\ pause => /\ paused = self
                             /\ Pause_resume(pause).ret
                 /\ Pausable_get_mut(resumed) = Ok(resumed, balances)
                 /\ Pausable_replace(resumed, value).res = "Ok"
                 /\ Pausable_replace(resumed, value).self.storage = value
                 /\ Pausable_replace_with(resumed, f).res = "Ok"
                 /\ Pausable_replace_with(resumed, f).self.storage = f[balances]

\* A mint through get_mut has just been refused with Paused on a ledger
\* that holds tokens.
C32_Witness ==
    /\ component = "pausable"
    /\ pause
    /\ last.op = "get_mut.mint" /\ last.res = "Paused"
    /\ balances.total > 0

(***************************************************************************)
(* Properties of AccessControl.                                            *)
(***************************************************************************)
\* C33: grant_role, revoke_role and set_role_admin succeed exactly when the
\* caller holds the admin role of the role (DEFAULT_ADMIN_ROLE for a role
\* whose admin was never set) or holds DEFAULT_ADMIN_ROLE; otherwise they
\* fail with the access-denied error and leave every membership and every
\* admin role as it was.
C33_OnlyAdminChangesRoles ==
    component = "access_control" =>
    \A source \in 1..NumRoleActors, target \in 1..NumRoleActors,
       role_id \in 0..NumRoles, new_admin \in 0..NumRoles :
        LET admin == IF role_id \in DOMAIN roles THEN roles[role_id].admin_role_id
                     ELSE DEFAULT_ADMIN_ROLE
            Holds(r) == r \in DOMAIN roles /\ source \in roles[r].members
            allowed == Holds(admin) \/ Holds(DEFAULT_ADMIN_ROLE)
            g == grant_role(roles, source, role_id, target)
            v == revoke_role(roles, source, role_id, target)
            s == set_role_admin(roles, source, role_id, new_admin)
        IN IF allowed
           THEN /\ g.res = "Ok" /\ v.res = "Ok" /\ s.res = "Ok"
                /\ has_role(g.self, role_id, target)
                /\ ~has_role(v.self, role_id, target)
                /\ get_role_admin(s.self, role_id) = new_admin
           ELSE /\ g = Err(roles, "AccessDenied")
                /\ v = Err(roles, "AccessDenied")
                /\ s = Err(roles, "AccessDenied")

\* A grant_role has just been refused while some role is administered by
\* a role other than DEFAULT_ADMIN_ROLE and an account holds a role without
\* holding DEFAULT_ADMIN_ROLE.
C33_Witness ==
    /\ component = "access_control"
    /\ last.op = "grant_role" /\ last.res = "AccessDenied"
    /\ \E r \in DOMAIN roles : roles[r].admin_role_id # DEFAULT_ADMIN_ROLE
    /\ \E r \in DOMAIN roles, a \in 1..NumRoleActors :
           /\ r # DEFAULT_ADMIN_ROLE
           /\ has_role(roles, r, a)
           /\ ~has_role(roles, DEFAULT_ADMIN_ROLE, a)

\* C34: grant_roles_batch is all-or-nothing: when the caller lacks the
\* admin role of any role in the list the call fails and none of the
\* listed roles is granted; otherwise the target holds every listed role.
C34_BatchGrantAllOrNothing ==
    component = "access_control" =>
    \A source \in 1..NumRoleActors, target \in 1..NumRoleActors,
       role_ids \in UNION {[1..n -> 0..NumRoles] : n \in 0..MaxBatch} :
        LET r == grant_roles_batch(roles, source, role_ids, target)
            MayGrant(role_id) ==
                grant_role(roles, source, role_id, target).res = "Ok"
        IN IF \A i \in DOMAIN role_ids : MayGrant(role_ids[i])
           THEN /\ r.res = "Ok"
                /\ \A i \in DOMAIN role_ids : has_role(r.self, role_ids[i], target)
           ELSE r = Err(roles, "AccessDenied")

\* A batch has just been refused of which the caller could have granted
\* one role on its own, and some account holds no role at all.
C34_Witness ==
    /\ component = "access_control"
    /\ last.op = "grant_roles_batch" /\ last.res = "AccessDenied"
    /\ last.ret = 1
    /\ \E a \in 1..NumRoleActors : \A r \in DOMAIN roles : ~has_role(roles, r, a)

(***************************************************************************)
(* Properties of the composite calls of Vft and VftExtension.              *)
(***************************************************************************)
\* C35 as stated: transfer_from and transfer_all_from are atomic across
\* the two ledgers: when one of them ends in an error no allowance entry
\* (amount or expiry) and no balance, total_supply or unused differs from
\* the state before the call.
C35_CompositeCallsAtomic ==
    component = "vft" =>
    \A source \in AllowanceActor, from \in AllowanceActor, to \in VftActor,
       value \in U256, bn \in VftBlockHeight :
        LET r == transfer_from(Vft, source, from, to, value, bn)
            ra == transfer_all_from(Vft, source, from, to, bn)
        IN /\ r.res # "Ok" => r.self = Vft
           /\ ra.res # "Ok" => ra.self = Vft

\* A spender has just had transfer_all_from refused for lack of allowance,
\* which is looked at only after the balance has been moved: no allowance
\* is stored and the ledger holds tokens.
C35_Witness ==
    /\ component = "vft"
    /\ last.op = "transfer_all_from" /\ last.res = "Insufficient"
    /\ len(allowances.store) = 0
    /\ balances.total > 0

\* C36: remove_expired_allowance(owner, spender) removes the entry and
\* returns true only when the stored expiry is strictly less than the
\* current block; an entry with expiry >= the current block makes it fail
\* with AllowanceNotExpiredError and stays as it is; without an entry, or
\* with owner = spender, it returns false and changes nothing.
C36_RemovesOnlyExpired ==
    component = "vft" =>
    \A owner \in AllowanceActor, spender \in AllowanceActor, bn \in u32 :
        LET r == remove_expired_allowance(Vft, owner, spender, bn)
            has == HasAllowance(allowances, owner, spender)
        IN IF owner = spender \/ ~has
           THEN r = VftOk(Vft, FALSE, NoEvent)
           ELSE IF StoredAllowance(allowances, owner, spender)[2] < bn
           THEN /\ r.res = "Ok" /\ r.ret = TRUE
                /\ ~HasAllowance(r.self.allowances, owner, spender)
                /\ OtherAllowancesKept(allowances, r.self.allowances, owner, spender)
                /\ r.self.balances = balances
           ELSE r = VftErr(Vft, "AllowanceNotExpired")

\* An allowance that expires in the current block has just been refused
\* removal and is still stored.
C36_Witness ==
    /\ component = "vft"
    /\ last.op = "remove_expired_allowance" /\ last.res = "AllowanceNotExpired"
    /\ \E o \in AllowanceActor, s \in AllowanceActor :
           /\ HasAllowance(allowances, o, s)
           /\ StoredAllowance(allowances, o, s)[2] = 1

(***************************************************************************)
(* Properties of LeBytes.                                                  *)
(***************************************************************************)
\* C37 as stated: for every width N >= 1, LeBytes<N>::ONE denotes the
\* integer one under the little-endian reading: ZERO.checked_add(ONE) is
\* the smallest value greater than ZERO, and x.checked_add(ONE) is the
\* numeric successor of x whenever it does not overflow.
C37_OneIsTheUnit ==
    component = "le_bytes" =>
    LET N == Len(le_bytes)
        ONE == LeBytes_ONE(N)
        ZERO == [i \in 1..N |-> 0]
        first == LeBytes_checked_add(ZERO, ONE)
        next == LeBytes_checked_add(le_bytes, ONE)
    IN /\ from_le_slice(ONE) = 1
       /\ first.res = "Some"
       /\ \A y \in ByteStrings(MaxLeBytes) :
              (Len(y) = N /\ LeBytes_cmp(y, ZERO) = "Greater") =>
                  LeBytes_cmp(y, first.v) # "Less"
       /\ next.res = "Some" => from_le_slice(next.v) = from_le_slice(le_bytes) + 1

\* What the code does: ONE has its most significant byte set, so it
\* denotes ByteBase^(N - 1), and adding it advances the number by that.
C37_OneIsTheTopByte ==
    component = "le_bytes" =>
    LET N == Len(le_bytes)
        next == LeBytes_checked_add(le_bytes, LeBytes_ONE(N))
    IN /\ from_le_slice(LeBytes_ONE(N)) = ByteBase^(N - 1)
       /\ next.res = "Some" =>
              from_le_slice(next.v) = from_le_slice(le_bytes) + ByteBase^(N - 1)
       /\ next.res = "None" <=>
              from_le_slice(le_bytes) + ByteBase^(N - 1) >= ByteBase^N

\* ONE has just been added to the zero of two bytes: the value held is
\* <<0, 1>>, which denotes ByteBase.
C37_Witness ==
    /\ component = "le_bytes"
    /\ last.op = "checked_add_one" /\ last.res = "Some"
    /\ le_bytes = <<0, 1>>
    /\ last.ret = ByteBase

(***************************************************************************)
(* Properties of the ledgers' use of the unchecked inserts.                *)
(***************************************************************************)
\* C38: after any sequence of Balances and Allowances operations every key
\* is stored in at most one shard, and no mint, transfer or transfer_all
\* runs try_insert_new or try_insert_new_at for a key that some shard
\* already holds.
C38_KeysInOneShard ==
    /\ \A a \in NonZeroActor : Cardinality(HoldingShards(balances.store, a)) <= 1
    /\ \A o \in AllowanceActor, s \in AllowanceActor :
           Cardinality(HoldingShards(allowances.store, <<o, s>>)) <= 1
    /\ \A a \in NonZeroActor, b \in ActorId, v \in NonZeroT :
           /\ mint(balances, a, v).res # "KeyPresent"
           /\ transfer(balances, a, b, v).res # "KeyPresent"
           /\ b # 0 => transfer_all(balances, a, b).res # "KeyPresent"

\* A transfer_all has just moved a balance while both shards of the
\* ledger hold accounts.
C38_Witness ==
    /\ component = "balances"
    /\ last.op = "transfer_all" /\ last.res = "Ok" /\ last.ret > 0
    /\ Len(balances.store) = 2
    /\ \A i \in 1..2 : map_len(balances.store[i].map) > 0

(***************************************************************************)
(* Properties of allowance expiry.                                         *)
(***************************************************************************)
\* C39: decrease, and with it transfer_from, never consults the stored
\* expiry: its outcome is the same whatever expiry the entry carries, an
\* allowance whose expiry block is in the past can still be spent, and a
\* spend that leaves the entry in place refreshes its expiry, so that
\* remove_expired_allowance at that block no longer removes it.
C39_SpendIgnoresExpiry ==
    component = "vft" =>
    \A owner \in AllowanceActor, spender \in AllowanceActor :
        (owner # spender /\ HasAllowance(allowances, owner, spender)) =>
        LET key == <<owner, spender>>
            found == get(allowances.store, key)
            amount == found.v[1]
            stored_expiry == found.v[2]
        IN \A value \in Allowance \ {0}, bn \in u32 :
            LET d == decrease(allowances, owner, spender, value, bn)
                t == transfer_from(Vft, spender, owner, NumAllowanceActors + 1,
                                   value, bn)
                b == transfer(balances, owner, NumAllowanceActors + 1, value)
            IN /\ \A e \in u32 :
                      LET other == [allowances EXCEPT !.store =
                                       set_at(@, found.idx, key, <<amount, e>>)]
                          r == decrease(other, owner, spender, value, bn)
                      IN /\ r.res = d.res
                         /\ r.res = "Ok" => r.self = d.self
               /\ (stored_expiry < bn /\ AllowanceCovers(allowances, owner, spender, value)) =>
                      /\ d.res = "Ok"
                      /\ b.res = "Ok" => t.res = "Ok" /\ t.self.allowances = d.self
                      /\ HasAllowance(d.self, owner, spender) =>
                             /\ StoredAllowance(d.self, owner, spender)[2]
                                    = expiry(allowances, bn)
                             /\ remove_expired_allowance(
                                    [Vft EXCEPT !.allowances = d.self],
                                    owner, spender, bn).res = "AllowanceNotExpired"

\* A transfer_from has just spent part of a finite allowance: the entry is
\* still stored and carries the expiry of the later block.
C39_Witness ==
    /\ component = "vft"
    /\ last.op = "transfer_from" /\ last.res = "Ok"
    /\ \E o \in AllowanceActor, s \in AllowanceActor :
           /\ HasAllowance(allowances, o, s)
           /\ StoredAllowance(allowances, o, s)[1] < AllowanceMax
           /\ StoredAllowance(allowances, o, s)[2] = 1

(***************************************************************************)
(* Properties of the branches of Balances marked unreachable.              *)
(***************************************************************************)
\* C40: no branch of Balances marked unreachable is executed: in every
\* reachable state total_supply is at least unused and at least every
\* stored balance, so no burn, burn_all or burn_unused underflows it; in
\* transfer and transfer_all the shard found for `from` still holds its
\* entry at commit and the insert of `to` never reports CapacityOverflow.
C40_UnreachableBranchesNeverRun ==
    component = "balances" =>
    /\ balances.total >= balances.unused
    /\ \A a \in NonZeroActor : balances.total >= Balances_get(balances, a)
    /\ burn_unused(balances).res # "Panic"
    /\ \A a \in NonZeroActor, b \in ActorId, v \in NonZeroT :
           /\ burn(balances, a, v).res # "Panic"
           /\ burn_all(balances, a).res # "Panic"
           /\ transfer(balances, a, b, v).res # "Panic"
           /\ b # 0 => transfer_all(balances, a, b).res # "Panic"

\* A transfer_all has just moved a whole balance into the slot freed by
\* `from` in a ledger whose allocated shards are all full.
C40_Witness ==
    /\ component = "balances"
    /\ last.op = "transfer_all" /\ last.res = "Ok" /\ last.ret > 0
    /\ has_space_err(balances.store) # "Ok"

====
